---- MODULE Spec2Model ----
(***************************************************************************)
(* Model of the discovery and retrieval subsystem of release-check:        *)
(* the URL canonicalizer (lib/url-normalizer), the SSRF guard, sitemap     *)
(* discovery and parsing (lib/sitemap-parser) and the three crawlWebsite   *)
(* orchestrators (HTTP batch, browser, sitemap-first).                     *)
(*                                                                         *)
(* Spec is a crawl run, SpecCanon is canonicalizeUrl applied to a URL and  *)
(* to its own result, SpecShouldCrawl is shouldCrawlUrl applied to a URL   *)
(* and a site host, SpecSitemap is discoverSitemap followed by             *)
(* parseSitemap, SpecDiscover is discoverSitemap alone and SpecParse is    *)
(* parseSitemap alone with every request answered (weak fairness).         *)
(* SpecAnalyze is one request to GET /api/analyze in crawl mode, and       *)
(* SpecHttp is a run of the HTTP batch crawler on example.com in which     *)
(* every step that can be taken is taken (weak fairness).                  *)
(* SpecExtract is extractLinksFromHtml applied to a document, SpecFetch is  *)
(* fetchPage applied to a URL, and SpecStream is a number of requests to   *)
(* the log stream route served by one process.                             *)
(*                                                                         *)
(* A URL is a record of its components.  The path is the sequence of the   *)
(* segments that follow each "/" of the pathname: "/" is <<"">>, "/a" is   *)
(* <<"a">>, "/a/" is <<"a", "">>, "/a//b" is <<"a", "", "b">>.  A host is  *)
(* the sequence of its dot-separated labels.                               *)
(***************************************************************************)
EXTENDS Integers, Sequences, FiniteSets, TLC


(***************************************************************************)
(* Bounds of the model.                                                    *)
(***************************************************************************)
MaxPathLen == 3
MaxPagesBound == 3
MaxConcurrentBound == 2
MaxSitemapLen == 3
MaxLinks == 1

(***************************************************************************)
(* URL values.                                                             *)
(***************************************************************************)
MkUrl(scheme, host, port, path, query, frag) ==
  [scheme |-> scheme, host |-> host, port |-> port, path |-> path,
   query |-> query, frag |-> frag]

\* null: what canonicalizeUrl, fetchPage and discoverSitemap return for
\* "nothing"; a value of the same shape as a URL so that it compares with one.
Null == MkUrl("null", <<>>, "", <<>>, "", "")

\* String.prototype.toLowerCase on the labels and segments the model uses.
ToLower(s) ==
  CASE s = "WWW" -> "www"
    [] s = "EXAMPLE" -> "example"
    [] s = "INDEX.HTML" -> "index.html"
    [] s = "A" -> "a"
    [] s = "BLOG" -> "blog"
    [] s = "X.PDF" -> "x.pdf"
    [] OTHER -> s

LowerHost(h) == [i \in 1..Len(h) |-> ToLower(h[i])]

\* hostname.startsWith("www.") and hostname.replace(/^www\./, "")
StartsWithWww(h) == Len(h) >= 2 /\ h[1] = "www"
StripWww(h) == IF StartsWithWww(h) THEN SubSeq(h, 2, Len(h)) ELSE h

DefaultPort(scheme) ==
  IF scheme \in {"http", "ws"} THEN "80" ELSE IF scheme = "https" THEN "443" ELSE ""

\* new URL(str) for an absolute http(s) URL: the host is lower-cased, the
\* scheme's default port is dropped and an empty path becomes "/".
ParseUrl(raw) ==
  [raw EXCEPT !.host = LowerHost(raw.host),
              !.port = IF raw.port = DefaultPort(raw.scheme) THEN "" ELSE raw.port,
              !.path = IF raw.path = <<>> THEN <<"">> ELSE raw.path]

(***************************************************************************)
(* canonicalizeUrl (lib/url-normalizer).                                   *)
(***************************************************************************)
BlockedSchemes == {"mailto", "tel", "javascript", "data", "ftp", "file"}

IsNonEmptySeg(s) == s # ""

\* pathname.replace(/\/+/g, "/")
CollapseSlashes(p) ==
  IF p[Len(p)] = "" THEN SelectSeq(p, IsNonEmptySeg) \o <<"">>
  ELSE SelectSeq(p, IsNonEmptySeg)

IndexNames ==
  {"index.html", "index.htm", "index.php", "index.asp", "index.aspx",
   "index.jsp", "index.cgi", "default.html", "default.htm", "default.php",
   "default.asp", "default.aspx"}

\* the first index pattern that matches the end of the path is replaced by "/"
NormalizeIndex(p) ==
  IF ToLower(p[Len(p)]) \in IndexNames THEN [p EXCEPT ![Len(p)] = ""] ELSE p

\* if (pathname !== "/" && pathname.endsWith("/")) pathname = pathname.slice(0, -1)
StripTrailingSlash(p) ==
  IF p # <<"">> /\ p[Len(p)] = "" THEN SubSeq(p, 1, Len(p) - 1) ELSE p

NormalizePath(p) ==
  LET q == StripTrailingSlash(NormalizeIndex(CollapseSlashes(p)))
  IN IF q = <<>> THEN <<"">> ELSE q

\* the www policy applied to every host, whether or not it is the base's
NormalizeWwwAnyHost(h, baseHost) ==
  IF StartsWithWww(baseHost)
  THEN (IF StartsWithWww(h) THEN h ELSE <<"www">> \o h)
  ELSE StripWww(h)

\* www policy: a host equal to the base host up to a leading "www." takes the
\* base's form; any other host is left as it is.
NormalizeWww(h, baseHost) ==
  IF StripWww(baseHost) = StripWww(h)
  THEN IF StartsWithWww(baseHost)
       THEN (IF StartsWithWww(h) THEN h ELSE <<"www">> \o StripWww(h))
       ELSE (IF StartsWithWww(h) THEN StripWww(h) ELSE h)
  ELSE h

\* The steps applied to the URL object (lines 82-174).
CanonicalizeUrlObj(u, options) ==
  LET scheme == IF options.forceHttps /\ u.scheme = "http" THEN "https" ELSE u.scheme
      \* the protocol setter drops a port that is the new scheme's default
      port == IF u.port = DefaultPort(scheme) THEN "" ELSE u.port
      host == NormalizeWww(LowerHost(u.host), LowerHost(options.baseUrl.host))
  IN MkUrl(scheme, LowerHost(host), port, NormalizePath(u.path), "", "")

\* a string that is empty once trimmed and cut at "#"
IsEmptyString(raw) ==
  raw.scheme = "" /\ raw.host = <<>> /\ raw.port = "" /\ raw.path = <<>> /\ raw.query = ""

\* the branches that build the URL object: an absolute URL is parsed as it
\* is, "//host/path" takes the base's protocol, "/path" the base's origin;
\* an absolute URL without a host makes new URL() throw.
ResolveUrl(raw, base) ==
  IF raw.scheme # "" THEN raw
  ELSE IF raw.host # <<>> THEN [raw EXCEPT !.scheme = base.scheme]
  ELSE [raw EXCEPT !.scheme = base.scheme, !.host = base.host, !.port = base.port,
                   !.path = IF raw.path = <<>> THEN base.path ELSE raw.path]

\* canonicalizeUrl for a string: the fragment is cut, the listed schemes are
\* refused, an absolute http(s) URL is parsed.  The result stands for
\* urlObj.href, the serialization of the components.
CanonicalizeUrl(raw, options) ==
  IF raw = Null \/ IsEmptyString([raw EXCEPT !.frag = ""]) \/ raw.scheme \in BlockedSchemes
  THEN Null
  ELSE LET absolute == ResolveUrl([raw EXCEPT !.frag = ""], options.baseUrl)
       IN IF absolute.host = <<>> THEN Null
          ELSE CanonicalizeUrlObj(ParseUrl(absolute), options)

\* lowerPath.endsWith(ext) for the listed extensions, on the last segment.
SkipExtensionFiles == {"x.pdf", "x.jpg", "x.png", "x.css", "x.js", "x.json", "x.xml", "x.txt"}

\* shouldCrawlUrl comparing the hostnames as they are, www. included
ShouldCrawlUrlExactHost(raw, baseHostname, options) ==
  LET normalized == CanonicalizeUrl(raw, options)
  IN IF normalized = Null THEN FALSE
     ELSE IF LowerHost(normalized.host) # LowerHost(baseHostname) THEN FALSE
     ELSE ToLower(normalized.path[Len(normalized.path)]) \notin SkipExtensionFiles

\* shouldCrawlUrl (lib/url-normalizer).
ShouldCrawlUrl(raw, baseHostname, options) ==
  LET normalized == CanonicalizeUrl(raw, options)
  IN IF normalized = Null THEN FALSE
     ELSE IF StripWww(LowerHost(normalized.host)) # StripWww(LowerHost(baseHostname)) THEN FALSE
     ELSE ToLower(normalized.path[Len(normalized.path)]) \notin SkipExtensionFiles

(***************************************************************************)
(* isSafeUrl: the SSRF guard, on url.hostname.  The URL parser gives an    *)
(* IPv6 literal with its brackets, so the loopback address of a URL        *)
(* http://[::1]/ is the one-label hostname "[::1]".                        *)
(***************************************************************************)
PrivateSecondOctets ==
  {"16", "17", "18", "19", "20", "21", "22", "23", "24", "25", "26", "27",
   "28", "29", "30", "31"}

IsSafeUrl(url) ==
  LET hostname == LowerHost(url.host)
      first == IF hostname = <<>> THEN "" ELSE hostname[1]
      dotted == Len(hostname) >= 2
  IN ~ ( \/ hostname = <<"localhost">>
         \/ hostname = <<"127", "0", "0", "1">>
         \/ hostname = <<"::1">>
         \/ (first = "127" /\ dotted)
         \/ (Len(hostname) >= 4 /\ SubSeq(hostname, 1, 4) = <<"0", "0", "0", "0">>)
         \/ (first = "10" /\ dotted)
         \/ (first = "172" /\ Len(hostname) >= 3 /\ hostname[2] \in PrivateSecondOctets)
         \/ (first = "192" /\ Len(hostname) >= 3 /\ hostname[2] = "168")
         \/ (first = "169" /\ Len(hostname) >= 3 /\ hostname[2] = "254") )

(***************************************************************************)
(* The crawl: inputs and the site.                                         *)
(***************************************************************************)
ExampleHost == <<"example", "com">>
MetadataHost == <<"169", "254", "169", "254">>
Ipv6Loopback == <<"[::1]">>

RootOf(host) == MkUrl("https", host, "", <<>>, "", "")
PageOf(host, path) == MkUrl("https", host, "", path, "", "")

\* rootUrl arguments: with and without a scheme, unsafe hosts, and a string
\* that new URL() refuses (no host).
RootInputs ==
  { RootOf(ExampleHost),
    MkUrl("http", Ipv6Loopback, "", <<>>, "", ""),
    MkUrl("", <<"localhost">>, "", <<>>, "", ""),
    MkUrl("http", <<"127", "0", "0", "1">>, "", <<>>, "", ""),
    MkUrl("http", <<"0", "0", "0", "0">>, "", <<>>, "", ""),
    MkUrl("http", <<"10", "0", "0", "5">>, "", <<>>, "", ""),
    MkUrl("https", <<"172", "16", "0", "1">>, "", <<>>, "", ""),
    MkUrl("https", <<"192", "168", "1", "1">>, "", <<>>, "", ""),
    MkUrl("http", MetadataHost, "", <<>>, "", ""),
    MkUrl("https", <<>>, "", <<>>, "", "") }

Variants == {"http", "browser", "sitemapFirst"}

\* The <loc> entries of the sitemaps of example.com: /a, /b, /a/ and /, of
\* which a sitemap lists some, in this order.
AllSitemapUrls ==
  << PageOf(ExampleHost, <<"a">>), PageOf(ExampleHost, <<"b">>),
     PageOf(ExampleHost, <<"a", "">>), PageOf(ExampleHost, <<"">>) >>

SeqsUpTo(S, n) == UNION { [1..k -> S] : k \in 0..n }

RECURSIVE Pick(_, _)
Pick(s, indices) ==
  IF indices = {} THEN <<>>
  ELSE LET m == CHOOSE x \in indices : \A y \in indices : x <= y
       IN <<s[m]>> \o Pick(s, indices \ {m})

SitemapLists ==
  { Pick(AllSitemapUrls, I) :
      I \in { J \in SUBSET (1..Len(AllSitemapUrls)) : Cardinality(J) <= MaxSitemapLen } }

\* pages of the crawled site that links and redirects may lead to
LinkTargets(baseHost) == { PageOf(baseHost, <<"b">>), PageOf(baseHost, <<"c">>) }
RedirectTargets(baseHost) == { PageOf(baseHost, <<"c">>) }

\* a page of another site, to which the crawled site may redirect
OtherHost == <<"other", "com">>
ForeignRedirectTargets == { PageOf(OtherHost, <<"c">>) }

IsInjective(s) == \A i, j \in 1..Len(s) : s[i] = s[j] => i = j

\* the links of a page, in document order (a Set keeps insertion order)
LinkSeqs(baseHost) == { l \in SeqsUpTo(LinkTargets(baseHost), MaxLinks) : IsInjective(l) }

\* What the site answers to a GET of target: a network error or 5xx (axios
\* throws), or a response with its status, whether it is HTML, the final URL
\* after redirects and the links of the document.
ErrResponse == [kind |-> "err", status |-> 0, html |-> FALSE, final |-> Null, links |-> <<>>]
Response(status, html, final, links) ==
  [kind |-> "resp", status |-> status, html |-> html, final |-> final, links |-> links]

Responses(target, baseHost) ==
  {ErrResponse, Response(200, FALSE, target, <<>>), Response(404, TRUE, target, <<>>)}
  \cup { Response(200, TRUE, f, l) :
           f \in {target} \cup RedirectTargets(baseHost), l \in LinkSeqs(baseHost) }
  \cup { Response(200, TRUE, f, <<>>) : f \in ForeignRedirectTargets }

IsPlainOk(resp, target) ==
  resp.kind = "resp" /\ resp.status = 200 /\ resp.html /\ resp.final = target

\* CrawledPage; links stands for the html the link extractor reads
Page(url, statusCode, links) == [url |-> url, statusCode |-> statusCode, links |-> links]
NoPage == Page(Null, 0, <<>>)
Pending == Page(Null, -1, <<>>)

Urls(pages) == { pages[i].url : i \in 1..Len(pages) }
InSeq(x, s) == \E i \in 1..Len(s) : s[i] = x
Min(a, b) == IF a < b THEN a ELSE b

VARIABLES
  variant, rootUrl, maxPages, maxConcurrent,   \* the call's arguments
  pc,                \* where crawlWebsite stands
  thrownAt,          \* the step whose exception reached the caller
  baseUrl,           \* the validated root
  sitemapUrl,        \* statistics.sitemapUrl
  sitemapUrls,       \* what parseSitemap returned
  sitemapUrlCount,   \* statistics.sitemapUrlCount
  childFailures,     \* child sitemaps that failed while the sitemap was parsed
  useSitemapAsPrimary,
  visited, urlQueue, results,
  batch, batchResults, ri,
  crawlErrors,       \* statistics.crawlErrors.length
  requests,          \* hosts a network request was issued to
  fetchCount,        \* page fetches issued so far, per target
  rootBad,           \* some fetch of the root was not answered 200 HTML in place
  plain              \* every answer so far was 200 HTML, in place, without links

crawlVars ==
  <<variant, rootUrl, maxPages, maxConcurrent, pc, thrownAt, baseUrl, sitemapUrl,
    sitemapUrls, sitemapUrlCount, childFailures, useSitemapAsPrimary, visited, urlQueue,
    results,
    batch, batchResults, ri, crawlErrors, requests, fetchCount, rootBad, plain>>

\* extractLinksFromHtml applied to one document
VARIABLES
  exPc,              \* "idle", "input" or "returned"
  exDoc,             \* the html argument with the page URL it was fetched from
  exOptions,         \* the normalizeOptions argument
  exLinks            \* the set of links returned

extractVars == <<exPc, exDoc, exOptions, exLinks>>

ExtractIdle ==
  /\ exPc = "idle"
  /\ exDoc = Null
  /\ exOptions = Null
  /\ exLinks = {}

\* fetchPage applied to one URL
VARIABLES
  fpPc,              \* "idle", "request", "backoff" or "returned"
  fpUrl,             \* the url argument
  fpAnswers,         \* what the GETs sent so far were answered with, in order
  fpResult           \* the CrawledPage returned, or null

fetchVars == <<fpPc, fpUrl, fpAnswers, fpResult>>

FetchIdle ==
  /\ fpPc = "idle"
  /\ fpUrl = Null
  /\ fpAnswers = <<>>
  /\ fpResult = Null

\* streaming analyze requests (GET of the log stream route) in one process
VARIABLES
  stPc,              \* per request: "start", "crawling" or "finished"
  stOriginal,        \* per request: the console.log it saved as originalConsoleLog
  console,           \* console.log: the requests whose wrappers a call runs through
  streams            \* per request: the crawls whose log lines its stream received

streamVars == <<stPc, stOriginal, console, streams>>

MaxRequests == 3
StreamRequests == 1..MaxRequests

\* console.log as the runtime provides it
NativeConsole == <<>>

StreamIdle ==
  /\ stPc = [r \in StreamRequests |-> "finished"]
  /\ stOriginal = [r \in StreamRequests |-> NativeConsole]
  /\ console = NativeConsole
  /\ streams = [r \in StreamRequests |-> {}]

\* the variables of the functions that are specified on their own besides
\* canonicalizeUrl and shouldCrawlUrl
moreVars == <<extractVars, fetchVars, streamVars>>
MoreIdle == ExtractIdle /\ FetchIdle /\ StreamIdle

\* canonicalizeUrl applied to one URL string, and to its own result
VARIABLES
  canonPc,           \* "idle", "input", "once", "twice" or "decided"
  canonUrl,          \* the url argument
  canonOptions,      \* the options argument: baseUrl and forceHttps
  canonical,         \* canonicalizeUrl(canonUrl, canonOptions)
  recanonical,       \* canonicalizeUrl(canonical, canonOptions)
  siteHost,          \* the baseHostname argument of shouldCrawlUrl
  crawlable          \* shouldCrawlUrl(canonUrl, siteHost, canonOptions)

urlVars == <<canonPc, canonUrl, canonOptions, canonical, recanonical, siteHost, crawlable>>
canonVars == <<urlVars, moreVars>>

\* discoverSitemap followed by parseSitemap, with the hosts they request
VARIABLES
  smPc,              \* where the discovery and the parse stand
  smBaseUrl,         \* discoverSitemap's baseUrl argument
  robotsSitemaps,    \* the Sitemap: declarations of robots.txt still to try
  probeResults,      \* what the probes of the common paths resolved to
  discovered,        \* what discoverSitemap returned
  visitedSitemaps,   \* parseSitemap's set of sitemap URLs it has entered
  calls,             \* the fetchSitemap calls of the parse, in creation order
  parsedUrls,        \* what parseSitemap returned
  parseThrew,        \* parseSitemap rejected
  netRequests        \* hosts the discovery and the parse sent a request to

smVars ==
  <<smPc, smBaseUrl, probeResults, robotsSitemaps, discovered, visitedSitemaps, calls,
    parsedUrls, parseThrew, netRequests>>

\* the variables of the specifications of the library functions
unitVars == <<canonVars, smVars>>

(***************************************************************************)
(* crawlWebsite: the steps the three variants share.                       *)
(***************************************************************************)
InitCrawl ==
  /\ variant \in Variants
  /\ rootUrl \in RootInputs
  /\ maxPages \in 0..MaxPagesBound
  /\ maxConcurrent \in (IF variant = "http" THEN 0..MaxConcurrentBound ELSE {1})
  /\ pc = "validate"
  /\ thrownAt = ""
  /\ baseUrl = Null
  /\ sitemapUrl = Null
  /\ sitemapUrls = <<>>
  /\ sitemapUrlCount = 0
  /\ childFailures = 0
  /\ useSitemapAsPrimary = FALSE
  /\ visited = {}
  /\ urlQueue = <<>>
  /\ results = <<>>
  /\ batch = <<>>
  /\ batchResults = <<>>
  /\ ri = 0
  /\ crawlErrors = 0
  /\ requests = {}
  /\ fetchCount = <<>>
  /\ rootBad = FALSE
  /\ plain = TRUE

argVars == <<variant, rootUrl, maxPages, maxConcurrent>>
sitemapVars == <<sitemapUrl, sitemapUrls, sitemapUrlCount, childFailures, useSitemapAsPrimary>>
queueVars == <<visited, urlQueue, results>>
batchVars == <<batch, batchResults, ri>>
historyVars == <<fetchCount, rootBad, plain>>

\* normalizeOptions, hostname and canonicalBase of a running crawl
NormalizeOptions == [baseUrl |-> baseUrl, forceHttps |-> TRUE]
Hostname == LowerHost(baseUrl.host)
CanonicalBase == CanonicalizeUrlObj(baseUrl, NormalizeOptions)

Throw(step) == pc' = "thrown" /\ thrownAt' = step

\* one more page fetch of target, answered by resp
NoteFetch(target, resp) ==
  /\ fetchCount' = (IF target \in DOMAIN fetchCount
                    THEN [fetchCount EXCEPT ![target] = @ + 1]
                    ELSE fetchCount @@ (target :> 1))
  /\ rootBad' = (rootBad \/ (target = CanonicalBase /\ ~IsPlainOk(resp, target)))
  /\ plain' = (plain /\ IsPlainOk(resp, target) /\ resp.links = <<>>)
  /\ requests' = requests \cup {target.host}

\* "Normalize and validate root URL": a missing scheme becomes https://, the
\* URL is parsed, http: is turned into https:, the SSRF guard is asked; any
\* failure is rethrown as "Invalid root URL".  canonicalizeUrl(baseUrl, ...)
\* then normalizes the URL object itself.
Validate ==
  /\ pc = "validate"
  /\ LET normalizedRoot == IF rootUrl.scheme = "" THEN [rootUrl EXCEPT !.scheme = "https"]
                           ELSE rootUrl
         parsed == [ParseUrl(normalizedRoot) EXCEPT !.scheme = "https"]
         options == [baseUrl |-> parsed, forceHttps |-> TRUE]
     IN IF normalizedRoot.host = <<>> \/ ~IsSafeUrl(parsed)
        THEN Throw("validate") /\ UNCHANGED baseUrl
        ELSE /\ baseUrl' = CanonicalizeUrlObj(parsed, options)
             /\ pc' = IF variant = "browser" THEN "launch" ELSE "discover"
             /\ UNCHANGED thrownAt
  /\ UNCHANGED <<argVars, sitemapVars, queueVars, batchVars, historyVars, crawlErrors, requests>>
  /\ UNCHANGED unitVars

\* browser variant: puppeteer.launch and newPage, inside try/finally only
LaunchBrowser ==
  /\ pc = "launch"
  /\ \E launched \in BOOLEAN :
       IF launched THEN pc' = "discover" /\ UNCHANGED thrownAt ELSE Throw("launch")
  /\ UNCHANGED <<argVars, baseUrl, sitemapVars, queueVars, batchVars, historyVars,
                 crawlErrors, requests>>
  /\ UNCHANGED unitVars

SitemapAt(host) == MkUrl("https", host, "", <<"sitemap.xml">>, "", "")

\* const sitemapUrl = await discoverSitemap(baseUrl): the conventional paths
\* (and robots.txt) are requested from the base host; the call returns a
\* sitemap URL or null and never throws.
DiscoverSitemap ==
  /\ pc = "discover"
  /\ \E found \in BOOLEAN :
       sitemapUrl' = IF found THEN SitemapAt(Hostname) ELSE Null
  /\ requests' = requests \cup {Hostname}
  /\ pc' = "sitemap"
  /\ UNCHANGED <<argVars, thrownAt, baseUrl, sitemapUrls, sitemapUrlCount, childFailures,
                 useSitemapAsPrimary, queueVars, batchVars, historyVars, crawlErrors>>
  /\ UNCHANGED unitVars

\* child sitemaps of the index that fail while the others succeed: none, or
\* two of them
ChildFailureCounts == {0, 2}

\* await parseSitemap(sitemapUrl) as the crawl sees it: the sitemap is
\* requested where discovery found it; the call returns the <loc> list or throws.
ParseRequests == requests \cup {sitemapUrl.host}

\* The sitemap filter of the HTTP batch and browser variants: every URL that
\* shouldCrawlUrl accepts and whose canonical form is new is kept and marked
\* visited at once.
RECURSIVE FilterSitemapUrls(_, _, _, _)
FilterSitemapUrls(urls, i, toAdd, vis) ==
  IF i > Len(urls) THEN [toAdd |-> toAdd, visited |-> vis]
  ELSE LET normalized == CanonicalizeUrl(urls[i], NormalizeOptions)
       IN IF ShouldCrawlUrl(urls[i], Hostname, NormalizeOptions)
             /\ normalized # Null /\ normalized \notin vis
          THEN FilterSitemapUrls(urls, i + 1, Append(toAdd, normalized), vis \cup {normalized})
          ELSE FilterSitemapUrls(urls, i + 1, toAdd, vis)

\* The link admission loop: links are appended to the queue while slots
\* remain; a link is skipped if it is visited or already queued.
\* an admission loop that puts a new link in front of the queue
RECURSIVE AdmitLinksInFront(_, _, _, _, _, _)
AdmitLinksInFront(links, i, queue, added, remainingSlots, vis) ==
  IF i > Len(links) \/ added >= remainingSlots THEN queue
  ELSE IF links[i] \notin vis /\ ~InSeq(links[i], queue)
       THEN AdmitLinksInFront(links, i + 1, <<links[i]>> \o queue, added + 1,
                              remainingSlots, vis)
       ELSE AdmitLinksInFront(links, i + 1, queue, added, remainingSlots, vis)

RECURSIVE AdmitLinks(_, _, _, _, _, _)
AdmitLinks(links, i, queue, added, remainingSlots, vis) ==
  IF i > Len(links) \/ added >= remainingSlots THEN queue
  ELSE IF links[i] \notin vis /\ ~InSeq(links[i], queue)
       THEN AdmitLinks(links, i + 1, Append(queue, links[i]), added + 1, remainingSlots, vis)
       ELSE AdmitLinks(links, i + 1, queue, added, remainingSlots, vis)

(***************************************************************************)
(* crawlWebsite, HTTP batch variant (lib/crawler).                         *)
(***************************************************************************)
\* fetchPage: null after the retries of a network error or 5xx, null for a
\* response that is not HTML with a status below 400, the page otherwise.
FetchPage(resp) ==
  IF resp.kind = "err" THEN NoPage
  ELSE IF ~resp.html /\ resp.status < 400 THEN NoPage
  ELSE Page(resp.final, resp.status, resp.links)

\* STEP 1: parse the sitemap, filter it, queue at most maxPages of it.  A
\* rejection of parseSitemap is caught and noted in crawlErrors; child
\* sitemaps that failed inside a parse that resolved are not reported to
\* the caller.
HB_Seed ==
  /\ pc = "sitemap" /\ variant = "http"
  /\ IF sitemapUrl = Null
     THEN UNCHANGED <<sitemapUrls, sitemapUrlCount, childFailures, visited, urlQueue,
                      crawlErrors, requests>>
     ELSE \E parsed \in BOOLEAN, urls \in SitemapLists, failed \in ChildFailureCounts :
            /\ requests' = ParseRequests
            /\ IF parsed
               THEN LET f == FilterSitemapUrls(urls, 1, <<>>, visited)
                        sitemapLimit == Min(Len(f.toAdd), maxPages)
                    IN /\ sitemapUrls' = urls
                       /\ sitemapUrlCount' = Len(urls)
                       /\ childFailures' = failed
                       /\ visited' = f.visited
                       /\ urlQueue' = urlQueue \o SubSeq(f.toAdd, 1, sitemapLimit)
                       /\ UNCHANGED crawlErrors
               ELSE /\ urls = <<>> /\ failed = 0
                    /\ crawlErrors' = crawlErrors + 1
                    /\ UNCHANGED <<sitemapUrls, sitemapUrlCount, childFailures, visited,
                                   urlQueue>>
  /\ pc' = "root"
  /\ UNCHANGED <<argVars, thrownAt, baseUrl, sitemapUrl, useSitemapAsPrimary, results,
                 batchVars, historyVars>>
  /\ UNCHANGED unitVars

\* the root step without its test for a free slot
HB_RootStepUnchecked ==
  /\ pc = "root" /\ variant = "http"
  /\ LET canonicalRoot == CanonicalBase
     IN IF canonicalRoot # Null /\ canonicalRoot \notin visited
        THEN /\ urlQueue' = <<canonicalRoot>> \o urlQueue
             /\ visited' = visited \cup {canonicalRoot}
        ELSE UNCHANGED <<urlQueue, visited>>
  /\ pc' = "drain"
  /\ UNCHANGED <<argVars, thrownAt, baseUrl, sitemapVars, results, batchVars, historyVars,
                 crawlErrors, requests>>
  /\ UNCHANGED unitVars

\* STEP 2: the root is put in front of the queue if it is new and a slot is left.
HB_RootStep ==
  /\ pc = "root" /\ variant = "http"
  /\ LET canonicalRoot == CanonicalBase
     IN IF canonicalRoot # Null /\ canonicalRoot \notin visited
           /\ Len(urlQueue) + Len(results) < maxPages
        THEN /\ urlQueue' = <<canonicalRoot>> \o urlQueue
             /\ visited' = visited \cup {canonicalRoot}
        ELSE UNCHANGED <<urlQueue, visited>>
  /\ pc' = "drain"
  /\ UNCHANGED <<argVars, thrownAt, baseUrl, sitemapVars, results, batchVars, historyVars,
                 crawlErrors, requests>>
  /\ UNCHANGED unitVars

ResultOf(url, statusCode) == [url |-> url, statusCode |-> statusCode]

\* a loop head that starts the fetch of every queued target at once
HB_DispatchWholeQueue ==
  /\ pc = "drain" /\ variant = "http"
  /\ Len(urlQueue) > 0 /\ Len(results) < maxPages
  /\ batch' = urlQueue
  /\ urlQueue' = <<>>
  /\ batchResults' = [i \in 1..Len(urlQueue) |-> Pending]
  /\ ri' = 0
  /\ pc' = "fetching"
  /\ UNCHANGED <<argVars, thrownAt, baseUrl, sitemapVars, visited, results, historyVars,
                 crawlErrors, requests>>
  /\ UNCHANGED unitVars

\* STEP 3, loop head: a batch is cut off the queue and its fetches are started.
HB_Dispatch ==
  /\ pc = "drain" /\ variant = "http"
  /\ Len(urlQueue) > 0 /\ Len(results) < maxPages
  /\ LET batchSize == Min(maxConcurrent, Min(Len(urlQueue), maxPages - Len(results)))
     IN /\ batch' = SubSeq(urlQueue, 1, batchSize)
        /\ urlQueue' = SubSeq(urlQueue, batchSize + 1, Len(urlQueue))
        /\ batchResults' = [i \in 1..batchSize |-> Pending]
  /\ ri' = 0
  /\ pc' = "fetching"
  /\ UNCHANGED <<argVars, thrownAt, baseUrl, sitemapVars, visited, results, historyVars,
                 crawlErrors, requests>>
  /\ UNCHANGED unitVars

\* a fetch that records its page the moment it settles, not after the batch
HB_FetchCompleteRecording ==
  /\ pc = "fetching" /\ variant = "http"
  /\ \E i \in 1..Len(batch) :
       /\ batchResults[i] = Pending
       /\ \E resp \in Responses(batch[i], Hostname) :
            LET page == FetchPage(resp)
                canonicalUrl == CanonicalizeUrl(page.url, NormalizeOptions)
            IN /\ batchResults' = [batchResults EXCEPT ![i] = page]
               /\ NoteFetch(batch[i], resp)
               /\ IF page # NoPage /\ canonicalUrl # Null /\ canonicalUrl \notin visited
                     /\ Len(results) < maxPages
                  THEN /\ visited' = visited \cup {canonicalUrl}
                       /\ results' = Append(results, ResultOf(canonicalUrl, page.statusCode))
                       /\ UNCHANGED urlQueue
                  ELSE UNCHANGED queueVars
  /\ UNCHANGED <<argVars, pc, thrownAt, baseUrl, sitemapVars, batch, ri, crawlErrors>>
  /\ UNCHANGED unitVars

\* one fetchPage of the batch settles; the fetches settle in any order
HB_FetchComplete ==
  /\ pc = "fetching" /\ variant = "http"
  /\ \E i \in 1..Len(batch) :
       /\ batchResults[i] = Pending
       /\ \E resp \in Responses(batch[i], Hostname) :
            /\ batchResults' = [batchResults EXCEPT ![i] = FetchPage(resp)]
            /\ NoteFetch(batch[i], resp)
  /\ UNCHANGED <<argVars, pc, thrownAt, baseUrl, sitemapVars, queueVars, batch, ri, crawlErrors>>
  /\ UNCHANGED unitVars

\* Promise.allSettled resolves: the results are handled in batch order (an
\* empty batch has no result to handle)
HB_AllSettled ==
  /\ pc = "fetching" /\ variant = "http"
  /\ \A i \in 1..Len(batch) : batchResults[i] # Pending
  /\ ri' = 1
  /\ pc' = IF Len(batch) = 0 THEN "loopend" ELSE "process"
  /\ UNCHANGED <<argVars, thrownAt, baseUrl, sitemapVars, queueVars, batch, batchResults,
                 historyVars, crawlErrors, requests>>
  /\ UNCHANGED unitVars

\* the record test without the look-up in visited
HB_MayRecordUnchecked(canonicalUrl, vis, res) == Len(res) < maxPages

\* "Only add if we haven't seen this canonical URL and haven't exceeded limit"
HB_MayRecord(canonicalUrl, vis, res) == canonicalUrl \notin vis /\ Len(res) < maxPages

\* STEP 3, one turn of the result loop: a null result is skipped; the final
\* URL is canonicalized; a new canonical URL is marked and recorded, and
\* (STEP 4) its links are admitted while slots remain.
HB_Process ==
  /\ pc = "process" /\ variant = "http"
  /\ LET page == batchResults[ri]
         canonicalUrl == CanonicalizeUrl(page.url, NormalizeOptions)
     IN IF page = NoPage
        THEN UNCHANGED <<queueVars, crawlErrors>>
        ELSE IF canonicalUrl = Null
        THEN crawlErrors' = crawlErrors + 1 /\ UNCHANGED queueVars
        ELSE IF HB_MayRecord(canonicalUrl, visited, results)
        THEN /\ visited' = visited \cup {canonicalUrl}
             /\ results' = Append(results, ResultOf(canonicalUrl, page.statusCode))
             /\ urlQueue' =
                  IF Len(results') < maxPages /\ Len(urlQueue) + Len(results') < maxPages
                  THEN AdmitLinks(page.links, 1, urlQueue, 0,
                                  maxPages - Len(results') - Len(urlQueue), visited')
                  ELSE urlQueue
             /\ UNCHANGED crawlErrors
        ELSE UNCHANGED <<queueVars, crawlErrors>>
  /\ ri' = ri + 1
  /\ pc' = IF ri = Len(batch) THEN "loopend" ELSE "process"
  /\ UNCHANGED <<argVars, thrownAt, baseUrl, sitemapVars, batch, batchResults, historyVars,
                 requests>>
  /\ UNCHANGED unitVars

\* the end of the loop body: stop at the limit, cut a queue longer than 2 * maxPages
HB_LoopEnd ==
  /\ pc = "loopend" /\ variant = "http"
  /\ IF Len(results) >= maxPages
     THEN pc' = "done" /\ UNCHANGED urlQueue
     ELSE /\ pc' = "drain"
          /\ urlQueue' = IF Len(urlQueue) > maxPages * 2
                         THEN SubSeq(urlQueue, 1, maxPages) ELSE urlQueue
  /\ UNCHANGED <<argVars, thrownAt, baseUrl, sitemapVars, visited, results, batchVars,
                 historyVars, crawlErrors, requests>>
  /\ UNCHANGED unitVars

\* the loop condition fails: the statistics are completed and the pages returned
HB_Finish ==
  /\ pc = "drain" /\ variant = "http"
  /\ ~(Len(urlQueue) > 0 /\ Len(results) < maxPages)
  /\ pc' = "done"
  /\ UNCHANGED <<argVars, thrownAt, baseUrl, sitemapVars, queueVars, batchVars, historyVars,
                 crawlErrors, requests>>
  /\ UNCHANGED unitVars

(***************************************************************************)
(* crawlWebsite, sitemap-first variant (lib/crawler-sitemap-first).        *)
(***************************************************************************)
\* The sitemap filter: canonicalize, same host up to www., no skipped
\* extension, not yet in urlsToCrawl.  Nothing is marked visited here.
RECURSIVE Smf_FilterSitemapUrls(_, _, _)
Smf_FilterSitemapUrls(urls, i, urlsToCrawl) ==
  IF i > Len(urls) THEN urlsToCrawl
  ELSE LET normalized == CanonicalizeUrl(urls[i], NormalizeOptions)
       IN IF normalized = Null
             \/ StripWww(Hostname) # StripWww(LowerHost(normalized.host))
             \/ ToLower(normalized.path[Len(normalized.path)]) \in SkipExtensionFiles
             \/ InSeq(normalized, urlsToCrawl)
          THEN Smf_FilterSitemapUrls(urls, i + 1, urlsToCrawl)
          ELSE Smf_FilterSitemapUrls(urls, i + 1, Append(urlsToCrawl, normalized))

\* "Only add if not already in results"
Smf_MayRecord(canonicalUrl, res) == canonicalUrl # Null /\ canonicalUrl \notin Urls(res)

\* the root step's test before it records the root
Smf_MayRecordRoot(canonicalUrl, vis) == canonicalUrl # Null /\ canonicalUrl \notin vis

\* STEP 1: parse the sitemap and keep the first maxPages filtered URLs as
\* urlsToFetch (held in batch, walked with ri).
Smf_Seed ==
  /\ pc = "sitemap" /\ variant = "sitemapFirst"
  /\ IF sitemapUrl = Null
     THEN /\ pc' = "root"
          /\ UNCHANGED <<sitemapUrls, sitemapUrlCount, childFailures, batch, ri, crawlErrors,
                         requests>>
     ELSE \E parsed \in BOOLEAN, urls \in SitemapLists, failed \in ChildFailureCounts :
            /\ requests' = ParseRequests
            /\ IF parsed
               THEN LET urlsToFetch == SubSeq(Smf_FilterSitemapUrls(urls, 1, <<>>), 1,
                                              Min(maxPages, Len(Smf_FilterSitemapUrls(urls, 1, <<>>))))
                    IN /\ sitemapUrls' = urls
                       /\ sitemapUrlCount' = Len(urls)
                       /\ childFailures' = failed
                       /\ batch' = urlsToFetch
                       /\ ri' = 1
                       /\ pc' = IF urlsToFetch = <<>> THEN "root" ELSE "fetching"
                       /\ UNCHANGED crawlErrors
               ELSE /\ urls = <<>> /\ failed = 0
                    /\ crawlErrors' = crawlErrors + 1
                    /\ pc' = "root"
                    /\ UNCHANGED <<sitemapUrls, sitemapUrlCount, childFailures, batch, ri>>
  /\ UNCHANGED <<argVars, thrownAt, baseUrl, sitemapUrl, useSitemapAsPrimary, queueVars,
                 batchResults, historyVars>>
  /\ UNCHANGED unitVars

\* "Fetch all pages from sitemap", one turn: axios.get throws for a network
\* error or 5xx; an HTML answer is recorded under its canonical final URL
\* unless results already has it.  finalUrl is the response URL the HTTP
\* client reports, else the requested URL: either may be what the code sees.
Smf_Fetch ==
  /\ pc = "fetching" /\ variant = "sitemapFirst"
  /\ \E resp \in Responses(batch[ri], Hostname) :
       /\ NoteFetch(batch[ri], resp)
       /\ IF resp.kind = "err"
          THEN crawlErrors' = crawlErrors + 1 /\ UNCHANGED <<visited, results>>
          ELSE LET canonicalUrl == CanonicalizeUrl(resp.final, NormalizeOptions)
               IN /\ UNCHANGED crawlErrors
                  /\ IF resp.html /\ Smf_MayRecord(canonicalUrl, results)
                     THEN /\ visited' = visited \cup {canonicalUrl}
                          /\ results' = Append(results, ResultOf(canonicalUrl, resp.status))
                     ELSE UNCHANGED <<visited, results>>
  /\ ri' = ri + 1
  /\ pc' = IF ri = Len(batch) THEN "root" ELSE "fetching"
  /\ UNCHANGED <<argVars, thrownAt, baseUrl, sitemapVars, urlQueue, batch, batchResults>>
  /\ UNCHANGED unitVars

\* STEP 2: "Always ensure root page is included": an unvisited root is
\* fetched and put at the front of results.
Smf_RootStep ==
  /\ pc = "root" /\ variant = "sitemapFirst"
  /\ IF CanonicalBase \notin visited
     THEN \E resp \in Responses(CanonicalBase, Hostname) :
            /\ NoteFetch(CanonicalBase, resp)
            /\ IF resp.kind = "err"
               THEN crawlErrors' = crawlErrors + 1 /\ UNCHANGED <<visited, results>>
               ELSE LET canonicalUrl == CanonicalizeUrl(resp.final, NormalizeOptions)
                    IN /\ UNCHANGED crawlErrors
                       /\ IF resp.html /\ Smf_MayRecordRoot(canonicalUrl, visited)
                          THEN /\ visited' = visited \cup {canonicalUrl}
                               /\ results' = <<ResultOf(canonicalUrl, resp.status)>> \o results
                          ELSE UNCHANGED <<visited, results>>
     ELSE UNCHANGED <<visited, results, crawlErrors, requests, historyVars>>
  /\ pc' = "done"
  /\ UNCHANGED <<argVars, thrownAt, baseUrl, sitemapVars, urlQueue, batchVars>>
  /\ UNCHANGED unitVars

(***************************************************************************)
(* crawlWebsite, browser variant (lib/crawler-browser).                    *)
(***************************************************************************)
\* loadPageInBrowser: null for no response, a status of 400 or more, a
\* content type that is not HTML, or any exception.
LoadPageInBrowser(resp) ==
  IF resp.kind = "err" \/ resp.status >= 400 \/ ~resp.html THEN NoPage
  ELSE Page(resp.final, resp.status, resp.links)

\* "Only add if we haven't seen this URL"
BR_MayRecord(canonicalUrl, vis) == canonicalUrl \notin vis

\* urlQueue.splice(Math.min(3, urlQueue.length), 0, canonicalBase)
InsertAfterFirstFew(queue, url) ==
  LET at == Min(3, Len(queue))
  IN SubSeq(queue, 1, at) \o <<url>> \o SubSeq(queue, at + 1, Len(queue))

\* STEP 1: a non-empty sitemap makes the sitemap the primary source; its
\* filtered URLs are queued and marked, the queue is cut to maxPages.
BR_Seed ==
  /\ pc = "sitemap" /\ variant = "browser"
  /\ IF sitemapUrl = Null
     THEN UNCHANGED <<sitemapUrls, sitemapUrlCount, childFailures, useSitemapAsPrimary,
                      visited, urlQueue, crawlErrors, requests>>
     ELSE \E parsed \in BOOLEAN, urls \in SitemapLists, failed \in ChildFailureCounts :
            /\ requests' = ParseRequests
            /\ IF parsed
               THEN LET f == FilterSitemapUrls(urls, 1, <<>>, visited)
                    IN /\ sitemapUrls' = urls
                       /\ sitemapUrlCount' = Len(urls)
                       /\ childFailures' = failed
                       /\ useSitemapAsPrimary' = (Len(urls) > 0)
                       /\ visited' = f.visited
                       /\ urlQueue' = SubSeq(f.toAdd, 1, Min(maxPages, Len(f.toAdd)))
                       /\ UNCHANGED crawlErrors
               ELSE /\ urls = <<>> /\ failed = 0
                    /\ crawlErrors' = crawlErrors + 1
                    /\ UNCHANGED <<sitemapUrls, sitemapUrlCount, childFailures,
                                   useSitemapAsPrimary, visited, urlQueue>>
  /\ pc' = "root"
  /\ UNCHANGED <<argVars, thrownAt, baseUrl, sitemapUrl, results, batchVars, historyVars>>
  /\ UNCHANGED unitVars

\* STEP 2: an unvisited root is queued (after the first few sitemap URLs, or
\* in front) and marked.
BR_RootStep ==
  /\ pc = "root" /\ variant = "browser"
  /\ IF CanonicalBase \notin visited
     THEN /\ urlQueue' = IF useSitemapAsPrimary /\ Len(urlQueue) > 0
                         THEN InsertAfterFirstFew(urlQueue, CanonicalBase)
                         ELSE <<CanonicalBase>> \o urlQueue
          /\ visited' = visited \cup {CanonicalBase}
     ELSE UNCHANGED <<urlQueue, visited>>
  /\ pc' = "drain"
  /\ UNCHANGED <<argVars, thrownAt, baseUrl, sitemapVars, results, batchVars, historyVars,
                 crawlErrors, requests>>
  /\ UNCHANGED unitVars

\* STEP 3, one turn of the loop: the head of the queue is loaded; a page
\* with a new canonical final URL is marked and recorded and (STEP 4) its
\* links are admitted when the sitemap is not primary or the queue is short.
BR_Crawl ==
  /\ pc = "drain" /\ variant = "browser"
  /\ Len(urlQueue) > 0 /\ Len(results) < maxPages
  /\ LET currentUrl == Head(urlQueue)
         rest == Tail(urlQueue)
     IN \E resp \in Responses(currentUrl, Hostname) :
          LET crawledPage == LoadPageInBrowser(resp)
              canonicalUrl == CanonicalizeUrl(crawledPage.url, NormalizeOptions)
          IN /\ NoteFetch(currentUrl, resp)
             /\ IF crawledPage = NoPage \/ canonicalUrl = Null
                THEN /\ crawlErrors' = crawlErrors + 1
                     /\ urlQueue' = rest
                     /\ UNCHANGED <<visited, results>>
                ELSE IF BR_MayRecord(canonicalUrl, visited)
                THEN /\ visited' = visited \cup {canonicalUrl}
                     /\ results' = Append(results, ResultOf(canonicalUrl, crawledPage.statusCode))
                     /\ urlQueue' =
                          IF /\ Len(results') < maxPages
                             /\ Len(rest) + Len(results') < maxPages
                             /\ (~useSitemapAsPrimary \/ Len(rest) < 10)
                          THEN AdmitLinks(crawledPage.links, 1, rest, 0,
                                          maxPages - Len(results') - Len(rest), visited')
                          ELSE rest
                     /\ UNCHANGED crawlErrors
                ELSE /\ urlQueue' = rest
                     /\ UNCHANGED <<visited, results, crawlErrors>>
  /\ UNCHANGED <<argVars, pc, thrownAt, baseUrl, sitemapVars, batchVars>>
  /\ UNCHANGED unitVars

\* After the loop (its condition fails, or the break at the limit, which is
\* the same test).  FALLBACK: with no page and a sitemap that had URLs, the
\* browser is closed, the sitemap is parsed again (outside any try; the site
\* may answer with another list) and its first maxPages URLs become
\* urlsToFetch (held in batch, walked with ri).
BR_AfterDrain ==
  /\ pc = "drain" /\ variant = "browser"
  /\ ~(Len(urlQueue) > 0 /\ Len(results) < maxPages)
  /\ IF Len(results) = 0 /\ sitemapUrlCount > 0 /\ sitemapUrl # Null
     THEN \E parsed \in BOOLEAN, urls \in SitemapLists :
            /\ requests' = ParseRequests
            /\ IF parsed
               THEN /\ batch' = SubSeq(urls, 1, Min(maxPages, Len(urls)))
                    /\ ri' = 1
                    /\ pc' = IF batch' = <<>> THEN "lastresort" ELSE "fallback"
                    /\ UNCHANGED thrownAt
               ELSE urls = <<>> /\ Throw("fallback") /\ UNCHANGED <<batch, ri>>
     ELSE /\ pc' = "lastresort"
          /\ UNCHANGED <<thrownAt, batch, ri, requests>>
  /\ UNCHANGED <<argVars, baseUrl, sitemapVars, queueVars, batchResults, historyVars,
                 crawlErrors>>
  /\ UNCHANGED unitVars

\* HTTP fallback, one turn of the loop over urlsToFetch: a URL that
\* shouldCrawlUrl accepts and whose canonical form is not visited is fetched
\* with axios; an HTML answer is kept under the canonical requested URL.
\* httpResults is appended to the (empty) results, so it is kept there.
BR_FallbackFetch ==
  /\ pc = "fallback" /\ variant = "browser"
  /\ LET url == batch[ri]
         normalized == CanonicalizeUrl(url, NormalizeOptions)
         skip == \/ ~ShouldCrawlUrl(url, Hostname, NormalizeOptions)
                 \/ normalized = Null \/ normalized \in visited
     IN IF Len(results) >= maxPages
        THEN /\ pc' = "lastresort"
             /\ UNCHANGED <<ri, visited, results, crawlErrors, requests, historyVars>>
        ELSE /\ ri' = ri + 1
             /\ pc' = IF ri = Len(batch) THEN "lastresort" ELSE "fallback"
             /\ IF skip
                THEN UNCHANGED <<visited, results, crawlErrors, requests, historyVars>>
                ELSE \E resp \in Responses(normalized, Hostname) :
                       /\ NoteFetch(normalized, resp)
                       /\ IF resp.kind = "err"
                          THEN crawlErrors' = crawlErrors + 1 /\ UNCHANGED <<visited, results>>
                          ELSE /\ UNCHANGED crawlErrors
                               /\ IF resp.html
                                  THEN /\ results' = Append(results, ResultOf(normalized, resp.status))
                                       /\ visited' = visited \cup {normalized}
                                  ELSE UNCHANGED <<visited, results>>
  /\ UNCHANGED <<argVars, thrownAt, baseUrl, sitemapVars, urlQueue, batch, batchResults>>
  /\ UNCHANGED unitVars

\* "Ensure at least root page is in results": with no page and an unvisited
\* root, the root is fetched with axios (any answer below 500 is kept) and,
\* if that throws and the browser is still open, loaded in the browser.
\* The browser was closed exactly when the fallback ran.
BR_Finish ==
  /\ pc = "lastresort" /\ variant = "browser"
  /\ IF Len(results) = 0 /\ CanonicalBase \notin visited
     THEN \E resp \in Responses(CanonicalBase, Hostname),
             again \in Responses(CanonicalBase, Hostname) :
            LET browserOpen == ~(sitemapUrlCount > 0 /\ sitemapUrl # Null)
                rootPage == LoadPageInBrowser(again)
            IN /\ NoteFetch(CanonicalBase, resp)
               /\ results' =
                    IF resp.kind # "err" THEN <<ResultOf(CanonicalBase, resp.status)>>
                    ELSE IF browserOpen /\ rootPage # NoPage
                    THEN <<ResultOf(CanonicalBase, rootPage.statusCode)>>
                    ELSE results
     ELSE UNCHANGED <<results, requests, historyVars>>
  /\ pc' = "done"
  /\ UNCHANGED <<argVars, thrownAt, baseUrl, sitemapVars, visited, urlQueue, batchVars,
                 crawlErrors>>
  /\ UNCHANGED unitVars

(***************************************************************************)
(* The crawl as a whole.                                                   *)
(***************************************************************************)
CrawlNext ==
  \/ Validate
  \/ LaunchBrowser
  \/ DiscoverSitemap
  \/ HB_Seed
  \/ HB_RootStep
  \/ HB_Dispatch
  \/ HB_FetchComplete
  \/ HB_AllSettled
  \/ HB_Process
  \/ HB_LoopEnd
  \/ HB_Finish
  \/ Smf_Seed
  \/ Smf_Fetch
  \/ Smf_RootStep
  \/ BR_Seed
  \/ BR_RootStep
  \/ BR_Crawl
  \/ BR_AfterDrain
  \/ BR_FallbackFetch
  \/ BR_Finish

(***************************************************************************)
(* canonicalizeUrl on its own: one URL string and one options object are   *)
(* chosen, the function is applied to the string and then to its result.   *)
(***************************************************************************)
CanonSchemes == {"http", "https", "", "mailto", "ws"}
CanonHosts ==
  { <<>>, ExampleHost, <<"www", "example", "com">>, <<"WWW", "EXAMPLE", "com">>,
    <<"blog", "example", "com">>, <<"www", "BLOG", "example", "com">> }
CanonPorts == {"", "80", "443", "8080"}
CanonSegments == {"a", "", "index.html", "INDEX.HTML"}
CanonPaths == SeqsUpTo(CanonSegments, MaxPathLen)

\* URL strings: absolute, protocol-relative ("//host/path"), path-only
\* ("/path"), with and without a query and a fragment
CanonInputs ==
  { MkUrl(s, h, p, path, q, f) :
      s \in CanonSchemes, h \in CanonHosts, p \in CanonPorts, path \in CanonPaths,
      q \in {"", "utm_source=x"}, f \in {"", "top"} }

CanonBases == { RootOf(ExampleHost), RootOf(<<"www", "example", "com">>) }

CanonOptionsSet == { [baseUrl |-> b, forceHttps |-> fh] : b \in CanonBases, fh \in BOOLEAN }

UrlIdle ==
  /\ canonPc = "idle"
  /\ canonUrl = Null
  /\ canonOptions = [baseUrl |-> RootOf(ExampleHost), forceHttps |-> TRUE]
  /\ canonical = Null
  /\ recanonical = Null
  /\ siteHost = ExampleHost
  /\ crawlable = FALSE

CanonIdle == UrlIdle /\ MoreIdle

CanonStart ==
  /\ canonPc = "input"
  /\ canonUrl \in { u \in CanonInputs : u.port = "" \/ u.host # <<>> }
  /\ canonOptions \in CanonOptionsSet
  /\ canonical = Null
  /\ recanonical = Null
  /\ siteHost = ExampleHost
  /\ crawlable = FALSE
  /\ MoreIdle

\* canonical = canonicalizeUrl(url, options)
Canonicalize ==
  /\ canonPc = "input"
  /\ canonical' = CanonicalizeUrl(canonUrl, canonOptions)
  /\ canonPc' = "once"
  /\ UNCHANGED <<canonUrl, canonOptions, recanonical, siteHost, crawlable, moreVars>>
  /\ UNCHANGED <<crawlVars, smVars>>

\* recanonical = canonicalizeUrl(canonical, options), for a non-null canonical
Recanonicalize ==
  /\ canonPc = "once"
  /\ canonical # Null
  /\ recanonical' = CanonicalizeUrl(canonical, canonOptions)
  /\ canonPc' = "twice"
  /\ UNCHANGED <<canonUrl, canonOptions, canonical, siteHost, crawlable, moreVars>>
  /\ UNCHANGED <<crawlVars, smVars>>

CanonNext ==
  \/ Canonicalize
  \/ Recanonicalize

(***************************************************************************)
(* shouldCrawlUrl on its own: a URL string, the site's hostname and the    *)
(* options, among them loopback, private and link-local hosts.             *)
(***************************************************************************)
MaxShouldPathLen == 2

LocalHost == <<"localhost">>
PrivateHost == <<"10", "0", "0", "5">>

ShouldSchemes == {"http", "https", "", "mailto"}
ShouldHosts ==
  { <<>>, ExampleHost, <<"WWW", "EXAMPLE", "com">>, <<"blog", "example", "com">>,
    LocalHost, MetadataHost, PrivateHost }
ShouldSegments == {"a", "", "x.pdf", "X.PDF", "index.html"}
ShouldPaths == SeqsUpTo(ShouldSegments, MaxShouldPathLen)

ShouldInputs ==
  { MkUrl(s, h, "", path, q, "") :
      s \in ShouldSchemes, h \in ShouldHosts, path \in ShouldPaths, q \in {"", "utm_source=x"} }

\* the baseHostname argument
SiteHosts ==
  { ExampleHost, <<"www", "example", "com">>, <<"WWW", "EXAMPLE", "com">>,
    LocalHost, MetadataHost, PrivateHost }

ShouldBases ==
  { RootOf(ExampleHost), RootOf(<<"www", "example", "com">>),
    MkUrl("http", LocalHost, "", <<>>, "", ""),
    MkUrl("http", MetadataHost, "", <<>>, "", ""),
    MkUrl("http", PrivateHost, "", <<>>, "", "") }

ShouldStart ==
  /\ canonPc = "input"
  /\ canonUrl \in ShouldInputs
  /\ canonOptions \in { [baseUrl |-> b, forceHttps |-> fh] : b \in ShouldBases, fh \in BOOLEAN }
  /\ siteHost \in SiteHosts
  /\ canonical = Null
  /\ recanonical = Null
  /\ crawlable = FALSE
  /\ MoreIdle

\* crawlable = shouldCrawlUrl(url, baseHostname, options); canonical is the
\* value of its local "normalized"
ShouldCrawl ==
  /\ canonPc = "input"
  /\ canonical' = CanonicalizeUrl(canonUrl, canonOptions)
  /\ crawlable' = ShouldCrawlUrl(canonUrl, siteHost, canonOptions)
  /\ canonPc' = "decided"
  /\ UNCHANGED <<canonUrl, canonOptions, recanonical, siteHost, moreVars>>
  /\ UNCHANGED <<crawlVars, smVars>>

ShouldCrawlNext == ShouldCrawl

(***************************************************************************)
(* extractLinksFromHtml on its own: a document with or without a <base>    *)
(* tag and one element that carries a URL.                                 *)
(***************************************************************************)
\* where the function looks for URLs: <a href>, <area href>, <link rel href>,
\* <form action>, <meta http-equiv="refresh">, the text of <script>, data-*
LinkSources == {"a", "area", "link", "form", "meta", "script", "data"}

\* attribute values: a path, a page of the site by its absolute URL with and
\* without www., a page of another host, a resource, a mailto: address
ExHrefs ==
  { MkUrl("", <<>>, "", <<"c">>, "", ""),
    PageOf(ExampleHost, <<"b">>),
    PageOf(<<"www", "example", "com">>, <<"b">>),
    PageOf(OtherHost, <<"c">>),
    MkUrl("", <<>>, "", <<"x.pdf">>, "", ""),
    MkUrl("mailto", <<>>, "", <<"info">>, "", "") }

\* href of the <base> tag: no tag, another host, the site with www., a
\* directory of the site, a value new URL() refuses
ExBaseTags ==
  { Null,
    RootOf(OtherHost),
    RootOf(<<"www", "example", "com">>),
    MkUrl("", <<>>, "", <<"docs">>, "", ""),
    MkUrl("https", <<>>, "", <<>>, "", "") }

ExDocuments ==
  [ page : { ParseUrl(RootOf(ExampleHost)), ParseUrl(PageOf(ExampleHost, <<"a">>)) },
    baseTag : ExBaseTags,
    source : LinkSources,
    href : ExHrefs ]

\* the href tests of the script sweep: no javascript:, "#", mailto:, tel:
ScriptHrefAccepted(href) ==
  /\ href.scheme \notin {"javascript", "mailto", "tel"}
  /\ ~IsEmptyString(href)

\* baseHref: new URL(baseHrefAttr, baseUrl), null without the tag or when new
\* URL() throws
BaseHref(doc) ==
  IF doc.baseTag = Null \/ IsEmptyString(doc.baseTag) THEN Null
  ELSE LET resolved == ResolveUrl(doc.baseTag, doc.page)
       IN IF resolved.host = <<>> THEN Null ELSE ParseUrl(resolved)

\* the hostname the script sweep passes to shouldCrawlUrl:
\* normalizeOptions.baseUrl.hostname, read after the <base> tag was handled
ScriptSweepHostname(originalBaseHostname, normalizeOptions) == normalizeOptions.baseUrl.host

\* extractLinksFromHtml(html, baseUrl, normalizeOptions)
ExtractLinksFromHtml(doc, options) ==
  LET originalBaseHostname == options.baseUrl.host
      baseHref == BaseHref(doc)
      normalizeOptions == IF baseHref # Null THEN [options EXCEPT !.baseUrl = baseHref]
                          ELSE options
      effectiveBaseUrl == IF baseHref # Null THEN baseHref ELSE doc.page
      resolvedUrl == ResolveUrl(doc.href, effectiveBaseUrl)
      baseHostname == IF doc.source = "script"
                      THEN ScriptSweepHostname(originalBaseHostname, normalizeOptions)
                      ELSE originalBaseHostname
      normalized == CanonicalizeUrl(resolvedUrl, normalizeOptions)
  IN IF IsEmptyString(doc.href) THEN {}
     ELSE IF doc.source = "script" /\ ~ScriptHrefAccepted(doc.href) THEN {}
     ELSE IF resolvedUrl.host = <<>> THEN {}
     ELSE IF ~ShouldCrawlUrl(resolvedUrl, baseHostname, normalizeOptions) THEN {}
     ELSE IF normalized = Null THEN {}
     ELSE {normalized}

ExtractStart ==
  /\ exPc = "input"
  /\ exDoc \in ExDocuments
  /\ exOptions \in { [baseUrl |-> ParseUrl(RootOf(h)), forceHttps |-> TRUE] :
                       h \in { ExampleHost, <<"www", "example", "com">> } }
  /\ exLinks = {}

\* links = extractLinksFromHtml(page.html, pageUrl, normalizeOptions)
ExtractLinks ==
  /\ exPc = "input"
  /\ exLinks' = ExtractLinksFromHtml(exDoc, exOptions)
  /\ exPc' = "returned"
  /\ UNCHANGED <<exDoc, exOptions>>
  /\ UNCHANGED <<crawlVars, urlVars, smVars, fetchVars, streamVars>>

ExtractNext == ExtractLinks

(***************************************************************************)
(* fetchPage on its own: the retry loop around one axios.get.              *)
(***************************************************************************)
MAX_FETCH_RETRIES == 3

\* What a GET may be answered with: a status code and whether the content
\* is HTML-like; status 0 stands for an error without a response (timeout,
\* connection reset).
FetchAnswers ==
  { [status |-> 0, html |-> FALSE], [status |-> 500, html |-> FALSE] }
  \cup [status : {200, 403, 404, 408, 429}, html : BOOLEAN]

\* validateStatus: (status) => status < 500; a request without a response
\* rejects as well
AxiosThrows(answer) == answer.status = 0 \/ ~(answer.status < 500)

\* the catch block's test for an error that is not retried: a response with
\* a 4xx status other than 408 and 429
GivesUpAtOnce(answer) ==
  /\ answer.status # 0
  /\ answer.status >= 400 /\ answer.status < 500
  /\ answer.status # 408 /\ answer.status # 429

FetchStart ==
  /\ fpPc = "request"
  /\ fpUrl \in { PageOf(ExampleHost, <<"a">>), PageOf(ExampleHost, <<"b">>) }
  /\ fpAnswers = <<>>
  /\ fpResult = Null

\* One turn of the loop: the GET is answered.  A response that axios accepts
\* ends the call with a page or, for content that is not HTML below status
\* 400, with null; an error ends it with null if it is not to be retried or
\* this was the last attempt, and is followed by the backoff delay otherwise.
FP_Request ==
  /\ fpPc = "request"
  /\ \E answer \in FetchAnswers :
       LET attempt == Len(fpAnswers)
       IN /\ fpAnswers' = Append(fpAnswers, answer)
          /\ IF ~AxiosThrows(answer)
             THEN /\ fpResult' = FetchPage(Response(answer.status, answer.html, fpUrl, <<>>))
                  /\ fpPc' = "returned"
             ELSE IF GivesUpAtOnce(answer) \/ attempt = MAX_FETCH_RETRIES - 1
             THEN /\ fpResult' = NoPage
                  /\ fpPc' = "returned"
             ELSE /\ fpPc' = "backoff"
                  /\ UNCHANGED fpResult
  /\ UNCHANGED fpUrl
  /\ UNCHANGED <<crawlVars, urlVars, smVars, extractVars, streamVars>>

\* the backoff timer fires and the loop goes on
FP_BackoffElapsed ==
  /\ fpPc = "backoff"
  /\ fpPc' = "request"
  /\ UNCHANGED <<fpUrl, fpAnswers, fpResult>>
  /\ UNCHANGED <<crawlVars, urlVars, smVars, extractVars, streamVars>>

FetchNext == FP_Request \/ FP_BackoffElapsed

(***************************************************************************)
(* The log stream route: each request replaces console.log, console.warn   *)
(* and console.error by wrappers that write to its event stream, runs the  *)
(* crawl and puts back what it had saved.  The three methods are replaced  *)
(* and restored together; console stands for each of them.  A wrapper is   *)
(* written as the request it belongs to, followed by the function it calls *)
(* next (the value it saved).                                              *)
(***************************************************************************)
StreamStart ==
  /\ stPc = [r \in StreamRequests |-> "start"]
  /\ stOriginal = [r \in StreamRequests |-> NativeConsole]
  /\ console = NativeConsole
  /\ streams = [r \in StreamRequests |-> {}]

\* const originalConsoleLog = console.log; console.log = (...args) => {
\* sendConsoleLog("info", ...args); originalConsoleLog(...args) }
ST_Intercept(r) ==
  /\ stPc[r] = "start"
  /\ stOriginal' = [stOriginal EXCEPT ![r] = console]
  /\ console' = <<r>> \o console
  /\ stPc' = [stPc EXCEPT ![r] = "crawling"]
  /\ UNCHANGED streams

\* The crawl of request r writes a line with console.log: every wrapper the
\* call runs through sends the line to the stream of its own request, unless
\* that stream is closed.
ST_Log(r) ==
  /\ stPc[r] = "crawling"
  /\ streams' = [q \in StreamRequests |->
                   IF InSeq(q, console) /\ stPc[q] # "finished"
                   THEN streams[q] \cup {r} ELSE streams[q]]
  /\ UNCHANGED <<stPc, stOriginal, console>>

\* crawl and analysis are over (or the crawl threw): console.log =
\* originalConsoleLog, and the stream is closed
ST_Restore(r) ==
  /\ stPc[r] = "crawling"
  /\ console' = stOriginal[r]
  /\ stPc' = [stPc EXCEPT ![r] = "finished"]
  /\ UNCHANGED <<stOriginal, streams>>

StreamNext ==
  /\ \E r \in StreamRequests : ST_Intercept(r) \/ ST_Log(r) \/ ST_Restore(r)
  /\ UNCHANGED <<crawlVars, urlVars, smVars, extractVars, fetchVars>>

(***************************************************************************)
(* discoverSitemap and parseSitemap (lib/sitemap-parser), with the hosts   *)
(* their requests go to.  The site answers each request as it likes.       *)
(***************************************************************************)
MAX_SITEMAP_DEPTH == 10
MAX_RETRIES == 3

MaxCalls == 4
MaxChildren == 2
MaxRobotsSitemaps == 2

commonPaths ==
  << "sitemap.xml", "sitemap_index.xml", "sitemap-index.xml", "sitemap1.xml",
     "sitemap_1.xml", "sitemaps.xml" >>

SitemapFile(host, name) == MkUrl("https", host, "", <<name>>, "", "")

\* new URL(str, base).href
NewUrl(raw, base) == ParseUrl(ResolveUrl(raw, base))

\* the first common path whose probe returned the URL
FirstFound(found) == CHOOSE i \in found : \A j \in found : i <= j

\* the status codes a site may answer a probe of the i-th common path with:
\* the first two and the last path may exist
ProbeAnswers(i) == IF i \in {1, 2, Len(commonPaths)} THEN {200, 404} ELSE {404}

\* what a robots.txt may declare after "Sitemap:": a file of the site by an
\* absolute URL or by its path, a file on the link-local metadata host, an
\* empty declaration ("#" only), a string that new URL() refuses ("https://")
RobotsDeclarations ==
  { SitemapFile(ExampleHost, "pages.xml"),
    MkUrl("", <<>>, "", <<"pages.xml">>, "", ""),
    MkUrl("http", MetadataHost, "", <<"latest">>, "", ""),
    MkUrl("", <<>>, "", <<>>, "", "note"),
    MkUrl("https", <<>>, "", <<>>, "", "") }

RobotsLists == SeqsUpTo(RobotsDeclarations, MaxRobotsSitemaps)

\* <loc> entries of a sitemap index: the discovered sitemap again, another
\* file of the site, a file on the metadata host
ChildLocs(root) ==
  { root, SitemapFile(ExampleHost, "pages.xml"),
    MkUrl("http", MetadataHost, "", <<"latest">>, "", "") }

ChildLists(root) == SeqsUpTo(ChildLocs(root), MaxChildren) \ {<<>>}

\* <loc> entries of a urlset
LocLists ==
  { <<>>, <<PageOf(ExampleHost, <<"a">>)>>,
    <<PageOf(ExampleHost, <<"a">>), PageOf(ExampleHost, <<"b">>)>> }

\* A site whose sitemaps are nested deeper than MAX_SITEMAP_DEPTH: the file
\* at depth d is an index of the file at depth d + 1 alone, down to depth
\* MAX_SITEMAP_DEPTH + 1, or a urlset.
DeepNames ==
  << "d0.xml", "d1.xml", "d2.xml", "d3.xml", "d4.xml", "d5.xml", "d6.xml", "d7.xml",
     "d8.xml", "d9.xml", "d10.xml", "d11.xml" >>

DeepFile(depth) == SitemapFile(ExampleHost, DeepNames[depth + 1])
IsDeep(u) == \E d \in 0..(Len(DeepNames) - 1) : u = DeepFile(d)
DeepDepth(u) == CHOOSE d \in 0..(Len(DeepNames) - 1) : u = DeepFile(d)

\* A site with fixed sitemap documents: site.xml is an index of part1.xml,
\* news.xml and part2.xml; part1.xml and part2.xml are indexes that both
\* list shared.xml; shared.xml and news.xml are urlsets of one page each.
FixedNames == {"site.xml", "part1.xml", "part2.xml", "shared.xml", "news.xml"}
IsFixed(u) == \E n \in FixedNames : u = SitemapFile(ExampleHost, n)

FixedDocument(u) ==
  CASE u = SitemapFile(ExampleHost, "site.xml") ->
         [body |-> "index",
          locs |-> << SitemapFile(ExampleHost, "part1.xml"), SitemapFile(ExampleHost, "news.xml"),
                      SitemapFile(ExampleHost, "part2.xml") >>]
    [] u \in { SitemapFile(ExampleHost, "part1.xml"), SitemapFile(ExampleHost, "part2.xml") } ->
         [body |-> "index", locs |-> << SitemapFile(ExampleHost, "shared.xml") >>]
    [] u = SitemapFile(ExampleHost, "shared.xml") ->
         [body |-> "urlset", locs |-> << PageOf(ExampleHost, <<"a">>) >>]
    [] u = SitemapFile(ExampleHost, "news.xml") ->
         [body |-> "urlset", locs |-> << PageOf(ExampleHost, <<"b">>) >>]

\* the <loc> lists an index at u may hold
ChildListsOf(u, root) ==
  IF IsDeep(u) THEN { <<DeepFile(DeepDepth(u) + 1)>> }
  ELSE IF IsFixed(u) THEN { FixedDocument(u).locs }
  ELSE ChildLists(root)

\* the <loc> lists a urlset at u may hold
LocListsOf(u) == IF IsFixed(u) THEN { FixedDocument(u).locs } ELSE LocLists

\* The status codes a GET of u may be answered with; 0 stands for a request
\* without a response (timeout, connection reset).  The deep site answers at
\* once or with 404, the site with fixed documents always answers.
StatusesOf(u) ==
  IF IsDeep(u) THEN {200, 404}
  ELSE IF IsFixed(u) THEN {200}
  ELSE IF u.path = <<"pages.xml">> THEN {200, 403, 500}
  ELSE {0, 200, 404}

\* the documents a 200 answer of u may carry
DocumentsOf(u) ==
  IF IsDeep(u) /\ DeepDepth(u) + 1 = Len(DeepNames) THEN {"urlset"}
  ELSE IF IsFixed(u) THEN { FixedDocument(u).body }
  ELSE {"index", "urlset"}

\* what a GET of u may be answered with
AnswersOf(u) ==
  { a \in [status : StatusesOf(u), body : DocumentsOf(u) \cup {"none"}] :
      a.status = 200 <=> a.body # "none" }

\* the retry loop without the test for 404 and 403: every error is retried
AttemptOutcomeRetryAll(answer) == IF answer.status = 200 THEN answer.body ELSE "failed"

\* How one attempt ends: validateStatus accepts 200 alone and the document is
\* returned; an error whose response has status 404 or 403 is thrown at once
\* ("gone"); any other error counts as a failed attempt.
AttemptOutcome(answer) ==
  IF answer.status = 200 THEN answer.body
  ELSE IF answer.status \in {404, 403} THEN "gone"
  ELSE "failed"

\* one call of fetchSitemap(url, depth); requested: it has sent a request;
\* gets: the status codes its GETs were answered with, in order
Call(u, depth, state) ==
  [url |-> u, depth |-> depth, attempt |-> 0, state |-> state, children |-> <<>>,
   value |-> <<>>, requested |-> FALSE, gets |-> <<>>]

Settled(c) == c.state \in {"fulfilled", "rejected"}

SitemapIdle ==
  /\ smPc = "idle"
  /\ smBaseUrl = RootOf(ExampleHost)
  /\ probeResults = <<>>
  /\ robotsSitemaps = <<>>
  /\ discovered = Null
  /\ visitedSitemaps = {}
  /\ calls = <<>>
  /\ parsedUrls = <<>>
  /\ parseThrew = FALSE
  /\ netRequests = {}

SitemapStart ==
  /\ smPc = "probe"
  /\ smBaseUrl \in { ParseUrl(RootOf(ExampleHost)), ParseUrl(RootOf(<<"www", "example", "com">>)) }
  /\ probeResults = [i \in 1..Len(commonPaths) |-> Pending]
  /\ robotsSitemaps = <<>>
  /\ discovered = Null
  /\ visitedSitemaps = {}
  /\ calls = <<>>
  /\ parsedUrls = <<>>
  /\ parseThrew = FALSE
  /\ netRequests = {}

parseVars == <<visitedSitemaps, calls, parsedUrls, parseThrew>>

\* discoverSitemap, first part: the six common paths are probed on the base
\* at the same time.  One probe: HEAD, and GET if HEAD threw or was not
\* answered 200; it resolves to the URL if either saw 200, else to null.
ProbeOne(i) ==
  /\ smPc = "probe"
  /\ probeResults[i] = Pending
  /\ netRequests' = netRequests \cup {smBaseUrl.host}
  /\ \E head \in ProbeAnswers(i) \cup {0}, get \in ProbeAnswers(i) \cup {0} :
       LET probedUrl == NewUrl(MkUrl("", <<>>, "", <<commonPaths[i]>>, "", ""), smBaseUrl)
       IN probeResults' = [probeResults EXCEPT
                             ![i] = IF head = 200 \/ get = 200 THEN probedUrl ELSE Null]
  /\ UNCHANGED <<smPc, smBaseUrl, robotsSitemaps, discovered, parseVars>>
  /\ UNCHANGED <<crawlVars, canonVars>>

ProbeSettles == \E i \in 1..Len(commonPaths) : ProbeOne(i)

\* the common paths whose probe returned a URL
FoundPaths == { i \in 1..Len(commonPaths) : probeResults[i] \notin {Pending, Null} }

\* a join that takes any probe that found a sitemap (Promise.any)
ProbeJoinAny ==
  /\ smPc = "probe"
  /\ \A i \in 1..Len(commonPaths) : probeResults[i] # Pending
  /\ IF FoundPaths # {}
     THEN /\ \E i \in FoundPaths : discovered' = probeResults[i]
          /\ smPc' = "parse"
     ELSE /\ smPc' = "robots"
          /\ UNCHANGED discovered
  /\ UNCHANGED <<smBaseUrl, probeResults, robotsSitemaps, parseVars, netRequests>>
  /\ UNCHANGED <<crawlVars, canonVars>>

\* Promise.allSettled over the probes has resolved: the results are walked in
\* the order of the list and the first URL is returned; without one the
\* robots.txt fallback follows.
ProbeJoin ==
  /\ smPc = "probe"
  /\ \A i \in 1..Len(commonPaths) : probeResults[i] # Pending
  /\ IF FoundPaths # {}
     THEN /\ discovered' = probeResults[FirstFound(FoundPaths)]
          /\ smPc' = "parse"
     ELSE /\ smPc' = "robots"
          /\ UNCHANGED discovered
  /\ UNCHANGED <<smBaseUrl, probeResults, robotsSitemaps, parseVars, netRequests>>
  /\ UNCHANGED <<crawlVars, canonVars>>

\* discoverSitemap, fallback: robots.txt is fetched from the base; a failure
\* or a status other than 200 ends the discovery with null.
FetchRobots ==
  /\ smPc = "robots"
  /\ netRequests' = netRequests \cup {smBaseUrl.host}
  /\ \E ok \in BOOLEAN, sitemapMatches \in RobotsLists :
       IF ok
       THEN robotsSitemaps' = sitemapMatches /\ smPc' = "candidates"
       ELSE sitemapMatches = <<>> /\ smPc' = "done" /\ UNCHANGED robotsSitemaps
  /\ UNCHANGED <<smBaseUrl, probeResults, discovered, parseVars>>
  /\ UNCHANGED <<crawlVars, canonVars>>

\* the loop over the declarations without the catch around new URL(): an
\* invalid URL ends discoverSitemap with an exception
TryRobotsSitemapUncaught ==
  /\ smPc = "candidates"
  /\ robotsSitemaps # <<>>
  /\ LET cleanUrl == [Head(robotsSitemaps) EXCEPT !.frag = ""]
         absoluteSitemapUrl == NewUrl(cleanUrl, smBaseUrl)
     IN IF IsEmptyString(cleanUrl)
        THEN /\ robotsSitemaps' = Tail(robotsSitemaps)
             /\ UNCHANGED <<smPc, discovered, netRequests>>
        ELSE IF absoluteSitemapUrl.host = <<>>
        THEN /\ smPc' = "threw"
             /\ UNCHANGED <<robotsSitemaps, discovered, netRequests>>
        ELSE /\ netRequests' = netRequests \cup {absoluteSitemapUrl.host}
             /\ \E exists \in BOOLEAN :
                  IF exists
                  THEN /\ discovered' = absoluteSitemapUrl
                       /\ smPc' = "parse"
                       /\ UNCHANGED robotsSitemaps
                  ELSE /\ robotsSitemaps' = Tail(robotsSitemaps)
                       /\ UNCHANGED <<smPc, discovered>>
  /\ UNCHANGED <<smBaseUrl, probeResults, parseVars>>
  /\ UNCHANGED <<crawlVars, canonVars>>

\* one turn of the loop over the Sitemap: declarations: an empty declaration
\* and an invalid URL are passed over; the resolved URL is requested (HEAD,
\* then GET) and returned if it answers 200.
TryRobotsSitemap ==
  /\ smPc = "candidates"
  /\ robotsSitemaps # <<>>
  /\ LET cleanUrl == [Head(robotsSitemaps) EXCEPT !.frag = ""]
         absoluteSitemapUrl == NewUrl(cleanUrl, smBaseUrl)
     IN IF IsEmptyString(cleanUrl) \/ absoluteSitemapUrl.host = <<>>
        THEN /\ robotsSitemaps' = Tail(robotsSitemaps)
             /\ UNCHANGED <<smPc, discovered, netRequests>>
        ELSE /\ netRequests' = netRequests \cup {absoluteSitemapUrl.host}
             /\ \E exists \in BOOLEAN :
                  IF exists
                  THEN /\ discovered' = absoluteSitemapUrl
                       /\ smPc' = "parse"
                       /\ UNCHANGED robotsSitemaps
                  ELSE /\ robotsSitemaps' = Tail(robotsSitemaps)
                       /\ UNCHANGED <<smPc, discovered>>
  /\ UNCHANGED <<smBaseUrl, probeResults, parseVars>>
  /\ UNCHANGED <<crawlVars, canonVars>>

\* no declaration is left: discoverSitemap returns null
NoSitemapFound ==
  /\ smPc = "candidates"
  /\ robotsSitemaps = <<>>
  /\ smPc' = "done"
  /\ UNCHANGED <<smBaseUrl, probeResults, robotsSitemaps, discovered, parseVars, netRequests>>
  /\ UNCHANGED <<crawlVars, canonVars>>

\* the entry tests without the depth limit: only the visited set stops a call
SkipSitemapByVisit(absoluteUrl, seen, depth) == absoluteUrl \in seen

\* the entry tests without the visited set: only the depth stops a call
SkipSitemapByDepth(absoluteUrl, seen, depth) == depth > MAX_SITEMAP_DEPTH

\* if (visitedSitemaps.has(url)) return []; if (depth > MAX_SITEMAP_DEPTH) return []
SkipSitemap(absoluteUrl, seen, depth) ==
  absoluteUrl \in seen \/ depth > MAX_SITEMAP_DEPTH

\* The entry of fetchSitemap(url, depth), up to its first await: a visited
\* URL and a depth beyond MAX_SITEMAP_DEPTH return [] at once; otherwise the
\* URL is marked and the retry loop starts.
RECURSIVE EnterAll(_, _, _, _, _)
EnterAll(locs, i, normalizedUrl, depth, acc) ==
  IF i > Len(locs) THEN acc
  ELSE LET absoluteUrl == NewUrl(locs[i], normalizedUrl)
           skip == SkipSitemap(absoluteUrl, acc.visited, depth)
           call == Call(absoluteUrl, depth, IF skip THEN "fulfilled" ELSE "running")
       IN EnterAll(locs, i + 1, normalizedUrl, depth,
                   [visited |-> IF skip THEN acc.visited ELSE acc.visited \cup {absoluteUrl},
                    calls |-> Append(acc.calls, call)])

\* return await fetchSitemap(sitemapUrl)
StartParse ==
  /\ smPc = "parse"
  /\ LET entered == EnterAll(<<discovered>>, 1, discovered, 0,
                             [visited |-> visitedSitemaps, calls |-> calls])
     IN visitedSitemaps' = entered.visited /\ calls' = entered.calls
  /\ smPc' = "parsing"
  /\ probeResults' = <<>>
  /\ UNCHANGED <<smBaseUrl, robotsSitemaps, discovered, parsedUrls, parseThrew, netRequests>>
  /\ UNCHANGED <<crawlVars, canonVars>>

\* One attempt of the retry loop of a call: an http:// URL is first tried
\* over https (HEAD) and upgraded if that answers 200; the GET then fails
\* for good (404, 403), fails for now (anything else: the attempt counts, and
\* the call rejects after MAX_RETRIES of them), or returns a document: a
\* sitemap index, whose children are entered at once, or a urlset.
Attempt(i) ==
  /\ smPc = "parsing"
  /\ calls[i].state = "running"
  /\ netRequests' = netRequests \cup {calls[i].url.host}
  /\ \E upgraded \in (IF calls[i].url.scheme = "http" THEN BOOLEAN ELSE {FALSE}),
        answer \in AnswersOf(calls[i].url) :
       LET normalizedUrl == IF upgraded THEN [calls[i].url EXCEPT !.scheme = "https"]
                            ELSE calls[i].url
           outcome == AttemptOutcome(answer)
           got == Append(calls[i].gets, answer.status)
       IN CASE outcome = "gone" ->
                 /\ calls' = [calls EXCEPT ![i].state = "rejected", ![i].requested = TRUE,
                                           ![i].gets = got]
                 /\ UNCHANGED visitedSitemaps
            [] outcome = "failed" ->
                 /\ calls' = [calls EXCEPT ![i].attempt = @ + 1,
                                           ![i].state = IF calls[i].attempt + 1 >= MAX_RETRIES
                                                        THEN "rejected" ELSE "running",
                                           ![i].requested = TRUE,
                                           ![i].gets = got]
                 /\ UNCHANGED visitedSitemaps
            [] outcome = "urlset" ->
                 /\ \E foundUrls \in LocListsOf(calls[i].url) :
                      calls' = [calls EXCEPT ![i].state = "fulfilled", ![i].value = foundUrls,
                                             ![i].requested = TRUE, ![i].gets = got]
                 /\ UNCHANGED visitedSitemaps
            [] outcome = "index" ->
                 \E locs \in ChildListsOf(calls[i].url, discovered) :
                   /\ IsDeep(calls[i].url) \/ IsFixed(calls[i].url)
                        \/ Len(calls) + Len(locs) <= MaxCalls
                   /\ LET entered == EnterAll(locs, 1, normalizedUrl, calls[i].depth + 1,
                                              [visited |-> visitedSitemaps, calls |-> calls])
                      IN /\ visitedSitemaps' = entered.visited
                         /\ calls' = [entered.calls EXCEPT
                                        ![i].state = "waiting",
                                        ![i].requested = TRUE,
                                        ![i].gets = got,
                                        ![i].children =
                                          [k \in 1..Len(locs) |-> Len(calls) + k]]
  /\ UNCHANGED <<smPc, smBaseUrl, probeResults, robotsSitemaps, discovered, parsedUrls, parseThrew>>
  /\ UNCHANGED <<crawlVars, canonVars>>

FetchSitemapAttempt == \E i \in 1..Len(calls) : Attempt(i)

\* successfulResults.flat(): the values of the fulfilled children, in order
RECURSIVE Flat(_, _, _)
Flat(cs, children, k) ==
  IF k > Len(children) THEN <<>>
  ELSE (IF cs[children[k]].state = "fulfilled" THEN cs[children[k]].value ELSE <<>>)
       \o Flat(cs, children, k + 1)

\* Promise.all in the place of Promise.allSettled: a rejected child rejects
\* the index
JoinChildrenAll ==
  /\ smPc = "parsing"
  /\ \E i \in 1..Len(calls) :
       /\ calls[i].state = "waiting"
       /\ \A k \in 1..Len(calls[i].children) : Settled(calls[calls[i].children[k]])
       /\ calls' = [calls EXCEPT
                      ![i].state = IF \E k \in 1..Len(calls[i].children) :
                                        calls[calls[i].children[k]].state = "rejected"
                                   THEN "rejected" ELSE "fulfilled",
                      ![i].value = Flat(calls, calls[i].children, 1)]
  /\ UNCHANGED <<smPc, smBaseUrl, probeResults, robotsSitemaps, discovered, visitedSitemaps, parsedUrls,
                 parseThrew, netRequests>>
  /\ UNCHANGED <<crawlVars, canonVars>>

\* Promise.allSettled over the children has resolved
JoinChildren ==
  /\ smPc = "parsing"
  /\ \E i \in 1..Len(calls) :
       /\ calls[i].state = "waiting"
       /\ \A k \in 1..Len(calls[i].children) : Settled(calls[calls[i].children[k]])
       /\ calls' = [calls EXCEPT ![i].state = "fulfilled",
                                 ![i].value = Flat(calls, calls[i].children, 1)]
  /\ UNCHANGED <<smPc, smBaseUrl, probeResults, robotsSitemaps, discovered, visitedSitemaps, parsedUrls,
                 parseThrew, netRequests>>
  /\ UNCHANGED <<crawlVars, canonVars>>

\* the outermost call settles: parseSitemap returns its URLs or rejects
ParseReturns ==
  /\ smPc = "parsing"
  /\ Settled(calls[1])
  /\ parsedUrls' = calls[1].value
  /\ parseThrew' = (calls[1].state = "rejected")
  /\ smPc' = "done"
  /\ UNCHANGED <<smBaseUrl, probeResults, robotsSitemaps, discovered, visitedSitemaps, calls, netRequests>>
  /\ UNCHANGED <<crawlVars, canonVars>>

\* discoverSitemap alone
DiscoverNext ==
  \/ ProbeSettles
  \/ ProbeJoin
  \/ FetchRobots
  \/ TryRobotsSitemap
  \/ NoSitemapFound

\* parseSitemap alone
ParseNext ==
  \/ StartParse
  \/ FetchSitemapAttempt
  \/ JoinChildren
  \/ ParseReturns

\* parseSitemap is called with the URL of a sitemap of the site
ParseStart ==
  /\ smPc = "parse"
  /\ smBaseUrl = ParseUrl(RootOf(ExampleHost))
  /\ probeResults = <<>>
  /\ robotsSitemaps = <<>>
  /\ discovered \in { SitemapFile(ExampleHost, "sitemap.xml"),
                       MkUrl("http", ExampleHost, "", <<"sitemap.xml">>, "", ""),
                       DeepFile(0), SitemapFile(ExampleHost, "site.xml") }
  /\ visitedSitemaps = {}
  /\ calls = <<>>
  /\ parsedUrls = <<>>
  /\ parseThrew = FALSE
  /\ netRequests = {}

SitemapNext ==
  \/ ProbeSettles
  \/ ProbeJoin
  \/ FetchRobots
  \/ TryRobotsSitemap
  \/ NoSitemapFound
  \/ StartParse
  \/ FetchSitemapAttempt
  \/ JoinChildren
  \/ ParseReturns

\* a crawl that is not running, for the specifications of the library functions
CrawlIdle ==
  /\ variant = "http"
  /\ rootUrl = RootOf(ExampleHost)
  /\ maxPages = 0
  /\ maxConcurrent = 1
  /\ pc = "idle"
  /\ thrownAt = ""
  /\ baseUrl = Null
  /\ sitemapUrl = Null
  /\ sitemapUrls = <<>>
  /\ sitemapUrlCount = 0
  /\ childFailures = 0
  /\ useSitemapAsPrimary = FALSE
  /\ visited = {}
  /\ urlQueue = <<>>
  /\ results = <<>>
  /\ batch = <<>>
  /\ batchResults = <<>>
  /\ ri = 0
  /\ crawlErrors = 0
  /\ requests = {}
  /\ fetchCount = <<>>
  /\ rootBad = FALSE
  /\ plain = TRUE

vars == <<crawlVars, canonVars, smVars>>

\* a crawl run
Init == InitCrawl /\ CanonIdle /\ SitemapIdle
Next == CrawlNext
Spec == Init /\ [][Next]_vars

\* extractLinksFromHtml as a pure function
InitExtract == CrawlIdle /\ UrlIdle /\ ExtractStart /\ FetchIdle /\ StreamIdle /\ SitemapIdle
SpecExtract == InitExtract /\ [][ExtractNext]_vars

\* fetchPage with the site answering each GET as it likes
InitFetch == CrawlIdle /\ UrlIdle /\ ExtractIdle /\ FetchStart /\ StreamIdle /\ SitemapIdle
SpecFetch == InitFetch /\ [][FetchNext]_vars

\* streaming analyze requests that arrive at any time
InitStream == CrawlIdle /\ UrlIdle /\ ExtractIdle /\ FetchIdle /\ StreamStart /\ SitemapIdle
SpecStream == InitStream /\ [][StreamNext]_vars

\* canonicalizeUrl as a pure function
InitCanon == CrawlIdle /\ CanonStart /\ SitemapIdle
SpecCanon == InitCanon /\ [][CanonNext]_vars

InitShouldCrawl == CrawlIdle /\ ShouldStart /\ SitemapIdle
SpecShouldCrawl == InitShouldCrawl /\ [][ShouldCrawlNext]_vars

\* sitemap discovery and parsing
InitSitemap == CrawlIdle /\ CanonIdle /\ SitemapStart
SpecSitemap == InitSitemap /\ [][SitemapNext]_vars

SpecDiscover == InitSitemap /\ [][DiscoverNext]_vars

\* parseSitemap with its requests answered: every axios call settles within
\* its timeout, every backoff timer fires, every continuation is run
InitParse == CrawlIdle /\ CanonIdle /\ ParseStart
SpecParse == InitParse /\ [][ParseNext]_vars /\ WF_vars(ParseNext)

\* a crawl run of the HTTP batch crawler on example.com in which every step
\* that can be taken is taken: every request completes or times out and
\* every continuation of the async function is run
InitHttp == Init /\ variant = "http" /\ rootUrl = RootOf(ExampleHost)
HttpNext ==
  \/ Validate
  \/ DiscoverSitemap
  \/ HB_Seed
  \/ HB_RootStep
  \/ HB_Dispatch
  \/ HB_FetchComplete
  \/ HB_AllSettled
  \/ HB_Process
  \/ HB_LoopEnd
  \/ HB_Finish
SpecHttp == InitHttp /\ [][HttpNext]_vars /\ WF_vars(HttpNext)

(***************************************************************************)
(* GET /api/analyze in crawl mode: the request's parameters are checked,   *)
(* robots.txt and the conventional sitemap paths of the requested host are *)
(* probed, and only then the sitemap-first crawlWebsite is called.         *)
(***************************************************************************)
\* the url parameter as the handler normalizes it: https:// is prepended to
\* a string without a scheme
RequestedUrl ==
  IF rootUrl.scheme = "" THEN [rootUrl EXCEPT !.scheme = "https"] ELSE rootUrl

\* the host new URL(normalizedUrl) gives
RequestedHost == LowerHost(ParseUrl(RequestedUrl).host)

\* a maxPages parameter outside 1..1000 is answered 400
GET_CheckParams ==
  /\ pc = "route"
  /\ pc' = IF maxPages < 1 \/ maxPages > 1000 THEN "badRequest" ELSE "probe"
  /\ UNCHANGED <<argVars, thrownAt, baseUrl, sitemapVars, queueVars, batchVars, historyVars,
                 crawlErrors, requests>>
  /\ UNCHANGED unitVars

\* new URL(normalizedUrl) throws into the handler's catch (a 500 answer);
\* otherwise axios.get(/robots.txt) and, when robots.txt declares no
\* sitemap, axios.head(/sitemap.xml), axios.head(/sitemap_index.xml) are sent
\* to the requested host, and crawlWebsite(normalizedUrl, ...) is called.
GET_ProbeSite ==
  /\ pc = "probe"
  /\ IF RequestedUrl.host = <<>>
     THEN Throw("route") /\ UNCHANGED requests
     ELSE /\ requests' = requests \cup {RequestedHost}
          /\ pc' = "validate"
          /\ UNCHANGED thrownAt
  /\ UNCHANGED <<argVars, baseUrl, sitemapVars, queueVars, batchVars, historyVars, crawlErrors>>
  /\ UNCHANGED unitVars

InitAnalyze ==
  /\ variant = "sitemapFirst"
  /\ rootUrl \in RootInputs
  /\ maxPages \in 0..MaxPagesBound
  /\ maxConcurrent = 1
  /\ pc = "route"
  /\ thrownAt = ""
  /\ baseUrl = Null
  /\ sitemapUrl = Null
  /\ sitemapUrls = <<>>
  /\ sitemapUrlCount = 0
  /\ childFailures = 0
  /\ useSitemapAsPrimary = FALSE
  /\ visited = {}
  /\ urlQueue = <<>>
  /\ results = <<>>
  /\ batch = <<>>
  /\ batchResults = <<>>
  /\ ri = 0
  /\ crawlErrors = 0
  /\ requests = {}
  /\ fetchCount = <<>>
  /\ rootBad = FALSE
  /\ plain = TRUE
  /\ CanonIdle
  /\ SitemapIdle

AnalyzeNext ==
  \/ GET_CheckParams
  \/ GET_ProbeSite
  \/ Validate
  \/ DiscoverSitemap
  \/ Smf_Seed
  \/ Smf_Fetch
  \/ Smf_RootStep

\* one request to the analyze endpoint with crawl=true
SpecAnalyze == InitAnalyze /\ [][AnalyzeNext]_vars


(***************************************************************************)
(* Properties of the crawl.                                                *)
(***************************************************************************)
CanonicalOf(raw) == CanonicalizeUrl(raw, NormalizeOptions)

\* The claims about the crawl are read for a root the SSRF guard is meant to
\* accept.
SafeRoot == rootUrl = RootOf(ExampleHost)

\* C1: no two entries of pages have the same url, in every state of every
\* crawl of the three variants (so also in the pages returned).
C1_NoDuplicatePages ==
  \A i, j \in 1..Len(results) : results[i].url = results[j].url => i = j

\* C1 witness: a crawl has returned at least two pages after fetching more
\* targets than it returns pages (a redirect or a repeated URL was dropped).
C1_Witness ==
  /\ pc = "done"
  /\ Len(results) >= 2
  /\ Cardinality(DOMAIN fetchCount) > Len(results)

\* C2: the returned pages list has at most maxPages entries.
C2_CapRespected == (pc = "done" /\ SafeRoot) => Len(results) <= maxPages

\* C3: in the HTTP batch crawler's result loop, a dequeued target whose fetch
\* was answered 200 with HTML at the requested URL is in pages after its turn,
\* provided pages had fewer than maxPages entries and no entry for it.
C3_FetchedTargetRecorded ==
  [][ ( /\ pc = "process" /\ variant = "http" /\ SafeRoot
        /\ batchResults[ri] # NoPage
        /\ batchResults[ri].statusCode = 200
        /\ batchResults[ri].url = batch[ri]
        /\ Len(results) < maxPages
        /\ batch[ri] \notin Urls(results) )
      => batch[ri] \in Urls(results') ]_crawlVars

\* C4: root https://example.com, sitemap /a, /b, /a/, every answer 200 HTML
\* without redirect (and without further links), room for three pages: the
\* returned urls are exactly /, /a and /b.
C4_EndToEndScenario ==
  ( /\ pc = "done"
    /\ rootUrl = RootOf(ExampleHost)
    /\ sitemapUrls = << PageOf(ExampleHost, <<"a">>), PageOf(ExampleHost, <<"b">>),
                        PageOf(ExampleHost, <<"a", "">>) >>
    /\ plain
    /\ maxPages >= 3 )
  => Urls(results) = { PageOf(ExampleHost, <<"">>), PageOf(ExampleHost, <<"a">>),
                       PageOf(ExampleHost, <<"b">>) }

\* C5: a sitemap was found and parsed, it lists pages but not the root, every
\* fetch of the run (the root's included) was answered 200 with HTML in place,
\* and maxPages >= 1: the returned pages contain the canonical root.
C5_RootGuarantee ==
  ( /\ pc = "done"
    /\ SafeRoot
    /\ sitemapUrl # Null
    /\ Len(sitemapUrls) >= 1
    /\ \A i \in 1..Len(sitemapUrls) : CanonicalOf(sitemapUrls[i]) # CanonicalBase
    /\ ~rootBad
    /\ plain
    /\ maxPages >= 1 )
  => CanonicalBase \in Urls(results)

\* C6: no canonical URL is the target of more than one page fetch in a run.
C6_NoDoubleFetch == SafeRoot => \A t \in DOMAIN fetchCount : fetchCount[t] <= 1

\* C7: an exception reaches the caller of crawlWebsite only from the
\* validation of the root URL.
C7_OnlyValidationThrows == (pc = "thrown" /\ SafeRoot) => thrownAt = "validate"

\* The hosts C8 names: localhost, 127.*, ::1, 0.0.0.0 and the private and
\* link-local IPv4 ranges (as they are written in a URL).
C8_UnsafeHosts ==
  { <<"localhost">>, <<"127", "0", "0", "1">>, Ipv6Loopback, <<"0", "0", "0", "0">>,
    <<"10", "0", "0", "5">>, <<"172", "16", "0", "1">>, <<"192", "168", "1", "1">>,
    MetadataHost }

\* C8: for a root on one of those hosts, crawlWebsite does nothing but throw
\* from the validation: no request is issued and no crawl state is built.
C8_UnsafeRootRejected ==
  rootUrl.host \in C8_UnsafeHosts =>
    /\ pc \in {"validate", "thrown"}
    /\ pc = "thrown" => thrownAt = "validate"
    /\ requests = {}
    /\ baseUrl = Null /\ visited = {} /\ urlQueue = <<>> /\ results = <<>>

\* C9: every host that sitemap discovery and sitemap parsing send a request
\* to (common-path probes, robots.txt, robots.txt candidates, sitemaps and
\* child sitemaps) is a host the SSRF guard accepts.
C9_RequestsPassGuard ==
  \A host \in netRequests : IsSafeUrl(MkUrl("https", host, "", <<"">>, "", ""))

\* C10: canonicalizeUrl applied to its own non-null result returns that result.
C10_Idempotent == canonPc = "twice" => recanonical = canonical

(***************************************************************************)
(* Properties of canonicalizeUrl and shouldCrawlUrl.                       *)
(***************************************************************************)
\* options derived from the root https://example.com
SiteOptions == [baseUrl |-> RootOf(ExampleHost), forceHttps |-> TRUE]

\* The resource a path denotes once repeated slashes, a trailing slash and an
\* index-document suffix are set aside.
ResourcePath(p) ==
  LET q == SelectSeq(p, IsNonEmptySeg)
  IN IF q # <<>> /\ ToLower(q[Len(q)]) \in IndexNames THEN SubSeq(q, 1, Len(q) - 1) ELSE q

\* u is an http(s) URL of the site example.com, written with any scheme, host
\* case, leading www., default port, slashes, index suffix, query and fragment
IsSiteUrl(u) ==
  /\ u.scheme \in {"http", "https"}
  /\ StripWww(LowerHost(u.host)) = ExampleHost
  /\ u.port \in {"", DefaultPort(u.scheme)}

\* C11: under options derived from https://example.com, a URL of the site
\* canonicalizes to the same string as the plain https URL of the resource
\* it denotes, so any two URLs that differ only in scheme, host case, www.,
\* default port, repeated slashes, trailing slash, index suffix, query or
\* fragment canonicalize to the same string.
C11_EquivalentUrlsAgree ==
  (canonPc = "once" /\ canonOptions = SiteOptions /\ IsSiteUrl(canonUrl))
  => canonical = CanonicalizeUrl(PageOf(ExampleHost, ResourcePath(canonUrl.path)), SiteOptions)

\* the URL object canonicalizeUrl builds from its argument, before the
\* normalization steps
ResolvedUrl == ParseUrl(ResolveUrl([canonUrl EXCEPT !.frag = ""], canonOptions.baseUrl))

\* the host of the URL differs from the base host after stripping a leading
\* www. from both
ForeignHost ==
  StripWww(LowerHost(ResolvedUrl.host)) # StripWww(LowerHost(canonOptions.baseUrl.host))

\* C12: canonicalizeUrl leaves the host unchanged, apart from lower-casing,
\* for every URL whose host differs from the base host after stripping a
\* leading www. from both.
C12_ForeignHostKept ==
  (canonPc = "once" /\ canonical # Null /\ ForeignHost)
  => canonical.host = LowerHost(canonUrl.host)

C12_Witness ==
  /\ canonPc = "once"
  /\ canonUrl.host = <<"www", "BLOG", "example", "com">>
  /\ canonOptions.baseUrl = RootOf(ExampleHost)
  /\ canonical.host = <<"www", "blog", "example", "com">>

\* C13: canonicalizeUrl returns null for every input whose scheme is not
\* http or https, so every non-null result is an absolute http(s) URL.
C13_NonHttpRejected ==
  canonPc = "once" =>
    /\ canonUrl.scheme \notin {"http", "https", ""} => canonical = Null
    /\ canonical # Null => canonical.scheme \in {"http", "https"} /\ canonical.host # <<>>

\* C14: shouldCrawlUrl(u, siteHost, options) is true exactly when
\* canonicalizeUrl(u, options) is non-null, its host equals siteHost ignoring
\* a leading www. on both, and its path does not end in a listed non-page
\* extension; in every other case it is false.
C14_ShouldCrawlExactly ==
  canonPc = "decided" =>
    /\ crawlable \in BOOLEAN
    /\ crawlable <=>
         /\ canonical # Null
         /\ StripWww(canonical.host) = StripWww(LowerHost(siteHost))
         /\ ToLower(canonical.path[Len(canonical.path)]) \notin SkipExtensionFiles

C14_Witness ==
  /\ canonPc = "decided"
  /\ canonUrl = MkUrl("http", <<"WWW", "EXAMPLE", "com">>, "", <<"a", "">>, "utm_source=x", "")
  /\ siteHost = <<"www", "example", "com">>
  /\ canonical = PageOf(ExampleHost, <<"a">>)
  /\ crawlable

\* C15: shouldCrawlUrl returns false for every URL whose host is a loopback
\* name or address or lies in a private or link-local range, for every site
\* host it is called with.
C15_UnsafeNeverCrawlable ==
  (canonPc = "decided" /\ canonUrl.host # <<>> /\ ~IsSafeUrl(canonUrl)) => ~crawlable

(***************************************************************************)
(* Properties of parseSitemap and discoverSitemap.                         *)
(***************************************************************************)
\* how many times x occurs in the list s
Occurrences(s, x) == Cardinality({ k \in 1..Len(s) : s[k] = x })

\* the calls that stand for one sitemap document each: those without children
LeafCalls == { i \in 1..Len(calls) : calls[i].children = <<>> }

\* the <loc> entries the fetched child sitemaps returned, summed over
\* the calls
RECURSIVE ValueOccurrences(_, _)
ValueOccurrences(I, x) ==
  IF I = {} THEN 0
  ELSE LET i == CHOOSE k \in I : TRUE
       IN Occurrences(calls[i].value, x) + ValueOccurrences(I \ {i}, x)

\* a sitemap index lists the outermost sitemap among its children: the
\* index itself, or an index below it
SelfListed == \E k \in 2..Len(calls) : calls[k].url = calls[1].url

\* a later call for a URL that was entered before returned [] at its entry
Reentered(j) ==
  /\ calls[j].state = "fulfilled"
  /\ calls[j].attempt = 0
  /\ calls[j].children = <<>>
  /\ calls[j].value = <<>>

EachSitemapOnce ==
  /\ \A i, j \in 1..Len(calls) : (i < j /\ calls[i].url = calls[j].url) => Reentered(j)
  /\ \A x \in { PageOf(ExampleHost, <<"a">>), PageOf(ExampleHost, <<"b">>) } :
       Occurrences(parsedUrls, x) = ValueOccurrences(LeafCalls, x)

ChildrenIn(state) ==
  { calls[1].children[k] : k \in { n \in 1..Len(calls[1].children) :
                                     calls[calls[1].children[n]].state = state } }

\* C17: when some child sitemaps of an index fail (HTTP 500 on every
\* attempt, or 404), parseSitemap does not fail and returns all URLs of the
\* children that succeeded.
C17_PartialFailureTolerated ==
  (smPc = "done" /\ calls[1].children # <<>> /\ ChildrenIn("rejected") # {})
  => /\ ~parseThrew
     /\ \A x \in { PageOf(ExampleHost, <<"a">>), PageOf(ExampleHost, <<"b">>) } :
          Occurrences(parsedUrls, x) = ValueOccurrences(ChildrenIn("fulfilled"), x)

C17_Witness ==
  /\ smPc = "done"
  /\ Len(calls[1].children) = 2
  /\ \E k \in ChildrenIn("rejected") : calls[k].attempt = MAX_RETRIES
  /\ \E k \in ChildrenIn("fulfilled") : Len(calls[k].value) = 2
  /\ Len(parsedUrls) = 2

\* C18: each child sitemap that fails during sitemap resolution adds one
\* entry to the statistics error list: the returned statistics.crawlErrors
\* holds at least as many entries as child sitemaps failed.
C18_ChildFailuresReported ==
  (pc = "done" /\ SafeRoot) => crawlErrors >= childFailures

\* discoverSitemap has returned without a sitemap
NoSitemap == smPc = "done" /\ calls = <<>>

\* C19: discoverSitemap returns null and never throws when no conventional
\* path answers 200 and robots.txt is missing, unreachable, or lists only
\* invalid or non-existent sitemap URLs.
C19_DiscoveryReturnsNull ==
  /\ smPc # "threw"
  /\ NoSitemap => discovered = Null

\* robots.txt answered 200 and declared an invalid URL and a sitemap that
\* does not exist
C19_Witness ==
  /\ NoSitemap
  /\ discovered = Null
  /\ robotsSitemaps = <<>>
  /\ MetadataHost \in netRequests

\* the host is the root's host, ignoring a leading www. on both
OnSite(u) == StripWww(LowerHost(u.host)) = StripWww(LowerHost(baseUrl.host))

\* C20: every URL admitted to the work queue and every url in the returned
\* pages has a host equal to the root's host ignoring a leading www., for
\* any page content and any redirects answered by the site.  Stated for the
\* HTTP crawler, whose fetchPage reports the final URL after redirects.
C20_OnlySiteUrls ==
  (SafeRoot /\ baseUrl # Null /\ variant = "http") =>
    /\ \A i \in 1..Len(urlQueue) : OnSite(urlQueue[i])
    /\ \A i \in 1..Len(results) : OnSite(results[i].url)

(***************************************************************************)
(* Properties of the HTTP batch crawler's drain loop.                      *)
(***************************************************************************)
\* a fetch of the batch settles: one pending slot of batchResults is filled
\* and no other slot changes
OneSlotFilled ==
  \E i \in 1..Len(batch) :
    /\ batchResults[i] = Pending
    /\ batchResults'[i] # Pending
    /\ \A j \in 1..Len(batch) : j # i => batchResults'[j] = batchResults[j]

\* C21: the pages list returned by the HTTP batch crawler is the same for
\* every completion order of the concurrent fetches of a batch: a fetch that
\* settles fills its own slot of the batch and touches neither the pages,
\* the queue, the visited set nor the error list, and the settled batch is
\* handled slot by slot in batch order.
C21_CompletionOrderIrrelevant ==
  [][ /\ (variant = "http" /\ pc = "fetching" /\ pc' = "fetching") =>
           (OneSlotFilled /\ UNCHANGED <<results, urlQueue, visited, batch, crawlErrors>>)
      /\ (variant = "http" /\ pc = "process") =>
           (ri' = ri + 1 /\ UNCHANGED <<batch, batchResults>>
            /\ (results' # results =>
                  results' = Append(results, ResultOf(CanonicalizeUrl(batchResults[ri].url,
                                                                       NormalizeOptions),
                                                      batchResults[ri].statusCode)))) ]_vars

\* the second fetch of a batch has settled with a page while the first is
\* still in flight
C21_Witness ==
  /\ variant = "http" /\ pc = "fetching"
  /\ Len(batch) = 2
  /\ batchResults[1] = Pending
  /\ batchResults[2] \notin {Pending, NoPage}

(***************************************************************************)
(* Properties of the analyze endpoint.                                     *)
(***************************************************************************)
\* the request names localhost or an address of a private range
UnsafeRequest == RequestedUrl.host # <<>> /\ ~IsSafeUrl(ParseUrl(RequestedUrl))

\* C22: for a requested URL whose host is localhost or inside a private IP
\* range, the analyze endpoint in crawl mode issues no network request to
\* that host: the host is never among the hosts a request was sent to.
C22_NoRequestToUnsafeHost ==
  UnsafeRequest => RequestedHost \notin requests

\* C23: in the HTTP batch crawler a URL is in visited if and only if it has
\* been admitted to the work queue or is the canonical URL of a recorded
\* page; in particular every URL that waits in urlQueue is in visited.
C23_QueuedIsMarked ==
  (variant = "http" /\ SafeRoot) => \A i \in 1..Len(urlQueue) : urlQueue[i] \in visited

\* C24: in the HTTP batch crawler every dequeued target whose fetch returned
\* null (or threw) adds an entry to statistics.crawlErrors: the step of the
\* result loop that handles such a result lengthens crawlErrors by one.
C24_NullFetchReported ==
  [][ (variant = "http" /\ SafeRoot /\ pc = "process" /\ batchResults[ri] = NoPage) =>
        crawlErrors' = crawlErrors + 1 ]_vars

\* C25: whenever draining ends with an empty pages list, the crawl fetches
\* the canonical root once more before it returns; so the step of the HTTP
\* batch crawler that ends the drain loop with no page and returns is a
\* step that fetches the root.
C25_LastResortRootFetch ==
  [][ ( /\ variant = "http" /\ SafeRoot /\ maxPages >= 1
        /\ pc = "drain" /\ pc' = "done" /\ results = <<>> )
      => ( /\ CanonicalBase \in DOMAIN fetchCount'
           /\ fetchCount' # fetchCount ) ]_vars

\* C26: every crawlWebsite run of the HTTP batch crawler eventually returns
\* (or throws at validation), for every maxPages and maxConcurrent, when
\* every request completes or times out.
C26_CrawlReturns == <>(pc \in {"done", "thrown"})

SitemapTargets == FilterSitemapUrls(sitemapUrls, 1, <<>>, {}).toAdd

\* where a queued target came from: the sitemap filter marks what it keeps,
\* and the link admission takes no marked URL
SourceAmong(targets, target) ==
  IF InSeq(target, targets) THEN "sitemap"
  ELSE IF target = CanonicalBase THEN "root"
  ELSE "link"

SourceOf(target) == SourceAmong(SitemapTargets, target)

PositionIn(s, x) == CHOOSE i \in 1..Len(s) : s[i] = x
IsPrefix(s, t) == Len(s) <= Len(t) /\ SubSeq(t, 1, Len(s)) = s

\* targets not yet handed to a later batch: the current batch, then the queue
WaitingAt(at, currentBatch, queue) ==
  (IF at \in {"fetching", "process", "loopend"} THEN currentBatch ELSE <<>>) \o queue

\* no link-extracted target stands before a sitemap-sourced one, and the
\* sitemap-sourced targets stand in the order of the sitemap
SourceOrdered(s) ==
  Len(s) >= 2 =>
    LET targets == SitemapTargets
        source == [i \in 1..Len(s) |-> SourceAmong(targets, s[i])]
    IN \A i, j \in 1..Len(s) :
         i < j =>
           /\ ~(source[i] = "link" /\ source[j] = "sitemap")
           /\ (source[i] = "sitemap" /\ source[j] = "sitemap")
                => PositionIn(targets, s[i]) < PositionIn(targets, s[j])

\* C28: in the HTTP batch crawler every sitemap-sourced target is dequeued
\* in the same or an earlier batch than every link-extracted target, and
\* targets of one source are dequeued in the order of their discovery: once
\* the sitemap is queued, every step that changes the queue leaves the
\* waiting targets ordered by source and sitemap position, a batch is the
\* front of the queue in queue order, and links are appended behind what waits.
C28_DequeueOrder ==
  [][ (variant = "http" /\ pc \in {"root", "drain", "fetching", "process", "loopend"}) =>
        /\ urlQueue' # urlQueue => SourceOrdered(WaitingAt(pc', batch', urlQueue'))
        /\ pc # "root" =>
              IF pc = "drain" /\ pc' = "fetching"
              THEN batch' \o urlQueue' = urlQueue
              ELSE batch' = batch /\ IsPrefix(urlQueue, urlQueue') ]_vars

\* a sitemap-sourced target and a link-extracted one wait in the queue together
C28_Witness ==
  /\ variant = "http" /\ SafeRoot /\ pc = "drain"
  /\ Len(urlQueue) >= 2
  /\ SourceOf(urlQueue[1]) = "sitemap"
  /\ SourceOf(urlQueue[2]) = "link"

\* the fetchPage calls of the current batch that have not settled
InFlight == Cardinality({ i \in 1..Len(batchResults) : batchResults[i] = Pending })

\* C29: in the HTTP batch crawler at most maxConcurrent page fetches are in
\* flight at every moment, and a batch, while its fetches run, holds no more
\* targets than maxPages minus the number of pages recorded so far.
C29_BatchWithinLimits ==
  variant = "http" =>
    /\ InFlight <= maxConcurrent
    /\ (pc = "fetching" => Len(batch) <= maxPages - Len(results))

\* maxConcurrent fetches are in flight while more targets wait in the queue
C29_Witness ==
  /\ variant = "http" /\ SafeRoot /\ pc = "fetching"
  /\ maxConcurrent = 2
  /\ InFlight = 2
  /\ Len(urlQueue) >= 1

\* a call that returned [] at its entry: it sent no request and is not running
ReturnedAtEntry(j) == ~calls[j].requested /\ calls[j].state # "running"

\* C30: within one parseSitemap call each sitemap URL string is fetched by
\* at most one fetchSitemap invocation, no sitemap at a nesting depth
\* greater than 10 is fetched, and an invocation stopped at its entry (a
\* revisit or a depth overflow) is fulfilled with the empty list, so that
\* it fails neither its index nor the resolution.
C30_FetchedOnceWithinDepth ==
  smPc \in {"parsing", "done"} =>
    /\ \A i, j \in 1..Len(calls) :
         (i < j /\ calls[i].requested /\ calls[j].requested) => calls[i].url # calls[j].url
    /\ \A i, j \in 1..Len(calls) :
         (i < j /\ calls[i].url = calls[j].url) => ReturnedAtEntry(j)
    /\ \A i \in 1..Len(calls) : calls[i].requested => calls[i].depth <= MAX_SITEMAP_DEPTH
    /\ \A j \in 1..Len(calls) :
         calls[j].depth > MAX_SITEMAP_DEPTH => ReturnedAtEntry(j)
    /\ \A j \in 1..Len(calls) :
         ReturnedAtEntry(j) =>
           /\ calls[j].state = "fulfilled"
           /\ calls[j].value = <<>>
           /\ calls[j].children = <<>>
    /\ \A i \in 1..Len(calls) :
         ( /\ calls[i].state \in {"fulfilled", "rejected"}
           /\ calls[i].children # <<>>
           /\ \A k \in 1..Len(calls[i].children) : ReturnedAtEntry(calls[i].children[k]) )
         => (calls[i].state = "fulfilled" /\ calls[i].value = <<>>)

\* the sitemap at depth 10 was fetched and lists a further sitemap, which
\* was not fetched, and the resolution did not fail
C30_Witness ==
  /\ smPc = "done"
  /\ ~parseThrew
  /\ \E i, j \in 1..Len(calls) :
       /\ calls[i].depth = MAX_SITEMAP_DEPTH
       /\ calls[i].requested
       /\ calls[i].children = <<j>>
       /\ calls[j].depth = MAX_SITEMAP_DEPTH + 1
       /\ ReturnedAtEntry(j)

\* status codes of a failure that is worth another attempt: no response at
\* all (timeout, network error) or a 5xx answer
Transient(status) == status \in {0, 500}
Terminal(status) == status \in {404, 403}

\* every GET the call j has sent so far failed with a timeout, a network
\* error or a 5xx answer
KeepsFailing(j) ==
  /\ calls[j].gets # <<>>
  /\ \A k \in 1..Len(calls[j].gets) : Transient(calls[j].gets[k])

\* C31: in parseSitemap, a sitemap URL whose GET keeps failing with a
\* timeout, a network error or a 5xx answer is requested exactly MAX_RETRIES
\* (3) times and then its call rejects (its branch contributes nothing); a
\* URL that answers 404 or 403 is requested exactly once and its call rejects
\* at once.
C31_RetriesThenGivesUp ==
  smPc \in {"parsing", "done"} =>
    \A j \in 1..Len(calls) :
      /\ Len(calls[j].gets) <= MAX_RETRIES
      /\ KeepsFailing(j) =>
           IF Len(calls[j].gets) < MAX_RETRIES
           THEN calls[j].state = "running"
           ELSE calls[j].state = "rejected" /\ calls[j].value = <<>>
      /\ \A k \in 1..Len(calls[j].gets) :
           Terminal(calls[j].gets[k]) =>
             /\ k = Len(calls[j].gets)
             /\ calls[j].state = "rejected"
      /\ (calls[j].gets # <<>> /\ Terminal(calls[j].gets[1])) => Len(calls[j].gets) = 1

\* an index whose first child timed out three times and whose second child
\* answered 403 or 404 once; parseSitemap has returned
C31_Witness ==
  /\ smPc = "done"
  /\ \E j, k \in 1..Len(calls) :
       /\ KeepsFailing(j) /\ Len(calls[j].gets) = MAX_RETRIES
       /\ calls[j].state = "rejected"
       /\ Len(calls[k].gets) = 1 /\ Terminal(calls[k].gets[1])
       /\ calls[k].state = "rejected"

\* the URL of the i-th conventional path on the base
CommonPathUrl(i) == NewUrl(MkUrl("", <<>>, "", <<commonPaths[i]>>, "", ""), smBaseUrl)

\* the probe of the i-th conventional path saw status 200
Answered200(i) == probeResults[i] = CommonPathUrl(i)

\* C32: whenever at least one conventional path answered 200, discoverSitemap
\* returns the earliest such path of the list, whatever the order in which
\* the probes completed, without fetching robots.txt; robots.txt is fetched
\* only when no conventional path answered 200.
C32_EarliestListedPathWins ==
  [][ /\ (smPc = "probe" /\ smPc' # "probe") =>
            IF \E i \in 1..Len(commonPaths) : Answered200(i)
            THEN /\ smPc' = "parse"
                 /\ \E i \in 1..Len(commonPaths) :
                      /\ Answered200(i)
                      /\ \A j \in 1..(i - 1) : ~Answered200(j)
                      /\ discovered' = CommonPathUrl(i)
            ELSE smPc' = "robots" /\ discovered' = Null
      /\ (smPc = "robots" /\ smPc' # "robots") =>
            \A i \in 1..Len(commonPaths) : ~Answered200(i) ]_vars

\* discoverSitemap has returned /sitemap.xml although /sitemap_index.xml and
\* /sitemaps.xml answered 200 as well
C32_Witness ==
  /\ smPc = "parse"
  /\ Answered200(1) /\ Answered200(2) /\ Answered200(Len(commonPaths))
  /\ discovered = CommonPathUrl(1)

\* the host is the host of the site the crawl was started on, up to www.
OnOriginalSite(u) ==
  StripWww(LowerHost(u.host)) = StripWww(LowerHost(exOptions.baseUrl.host))

\* C33: extractLinksFromHtml returns only URLs whose host equals the crawl's
\* original site host (ignoring www.), also when the document's <base href>
\* points to a different host, for every link source it scans.
C33_LinksOnOriginalHost ==
  exPc = "returned" => \A link \in exLinks : OnOriginalSite(link)

\* the answer to the last GET fetchPage has sent
LastAnswer == fpAnswers[Len(fpAnswers)]

\* C34: fetchPage re-issues the request, up to MAX_FETCH_RETRIES (3) attempts
\* in total, when the server answers 408 or 429, as it does for 5xx answers
\* and network errors: it does not return on such an answer before its third
\* attempt.
C34_RetriesOn408And429 ==
  (fpPc = "returned" /\ LastAnswer.status \in {408, 429}) =>
     Len(fpAnswers) = MAX_FETCH_RETRIES

\* C35: fetchPage returns null for every response whose content is not
\* HTML-like, whatever the status code of the response.
C35_NonHtmlReturnsNull ==
  (fpPc = "returned" /\ LastAnswer.status # 0 /\ ~LastAnswer.html) => fpResult = NoPage

\* C36: a target whose fetch is answered with 404 or 403 contributes no entry
\* to pages: no entry of the pages of the HTTP batch and sitemap-first
\* crawlers has statusCode 404 or 403.
C36_NoRejectedPageRecorded ==
  (variant \in {"http", "sitemapFirst"} /\ SafeRoot) =>
    \A i \in 1..Len(results) : results[i].statusCode \notin {404, 403}

\* the URL the fallback loop stands at is a crawlable sitemap URL that the
\* loop has not met before
FallbackTarget ==
  /\ ShouldCrawlUrl(batch[ri], Hostname, NormalizeOptions)
  /\ CanonicalizeUrl(batch[ri], NormalizeOptions) # Null
  /\ \A k \in 1..(ri - 1) :
       CanonicalizeUrl(batch[k], NormalizeOptions) # CanonicalizeUrl(batch[ri], NormalizeOptions)

\* C37: in the browser crawler, when the browser phase ended with no pages
\* and the sitemap yielded at least one URL, the HTTP fallback issues a GET
\* for each distinct crawlable sitemap URL (up to maxPages) and adds every
\* HTML answer to pages.
C37_FallbackFetchesSitemapUrls ==
  [][ (variant = "browser" /\ SafeRoot /\ pc = "fallback" /\ Len(results) < maxPages
         /\ FallbackTarget) =>
        LET normalized == CanonicalizeUrl(batch[ri], NormalizeOptions)
        IN /\ normalized \in DOMAIN fetchCount'
           /\ fetchCount' # fetchCount ]_vars

\* the list parseSitemap returns for the site with fixed documents when each
\* request is answered before the next one is answered: the page of
\* shared.xml, found under part1.xml, then the page of news.xml
InListingOrder == << PageOf(ExampleHost, <<"a">>), PageOf(ExampleHost, <<"b">>) >>

\* C38: for a fixed set of sitemap documents the list parseSitemap returns
\* (elements and their order) is the same for every completion order of the
\* concurrent child-sitemap fetches, also when one child sitemap is listed
\* by two different indexes.
C38_SameListForEveryOrder ==
  (smPc = "done" /\ discovered = SitemapFile(ExampleHost, "site.xml")) =>
     parsedUrls = InListingOrder

\* C39: when two streaming analyze requests overlap in time, each request's
\* event stream carries only log lines produced by its own crawl, and once
\* both have finished console.log, console.warn and console.error are again
\* the functions they were before the first request started.
C39_StreamsIsolatedConsoleRestored ==
  /\ \A r \in StreamRequests : streams[r] \subseteq {r}
  /\ (\A r \in StreamRequests : stPc[r] = "finished") => console = NativeConsole

====
